---- MODULE Spec2Model ----
(***************************************************************************)
(* A state-machine model of hft.js: the trading coordinator (trader.ts),   *)
(* the market router (market.ts) and the gateway adapter (provider.ts).    *)
(* The gateway (napi-ctp) is the environment: its return codes, responses  *)
(* and notifications are nondeterministic inputs.                          *)
(***************************************************************************)
EXTENDS Integers, Sequences, FiniteSets, TLC

\* ------------------------------------------------------------------ bounds

\* Largest order / trade volume the environment draws.
MaxVolume == 2
\* Largest value of a position field in an initial position (SpecCalcPosition).
MaxInitPos == 1
\* Cap of today's position in SpecCalcPosition (open fills stop there).
MaxPosition == 3
\* Orders the gateway accepts in a run.
MaxOrders == 2
\* Largest orderRef (every submission attempt mints one).
MaxOrderRef == 3
\* Calls of subscribe, unsubscribe, startRecorder and stopRecorder in a run.
MaxMarketCalls == 4
\* Calls of queryMarginRate and queryCommissionRate in a run.
MaxRateCalls == 3
\* Times the gateway loses its front connection in a run.
MaxReconnects == 1
\* Records a query answer carries before its last response.
MaxRecords == 1

\* placeOrder and cancelOrder calls of one behaviour
MaxPlaceCalls == 2

\* ----------------------------------------------------------- generic maps

\* A JavaScript Map: a function whose domain is the set of keys present.
EmptyMap == [k \in {} |-> 0]

MapSet(m, k, v) == [x \in (DOMAIN m) \cup {k} |-> IF x = k THEN v ELSE m[x]]

MapDelete(m, k) == [x \in (DOMAIN m) \ {k} |-> m[x]]

MapHas(m, k) == k \in DOMAIN m

RECURSIVE SumSeq(_)
SumSeq(s) == IF s = <<>> THEN 0 ELSE Head(s) + SumSeq(Tail(s))

\* --------------------------------------------------------------- typedefs

Sides == {"long", "short"}

Offsets == {"open", "close", "close-today"}

\* parseSymbol: a symbol "instrumentId.exchangeId" is kept as the pair of
\* its two parts; splitting it yields [instrumentId, exchangeId].
MkSymbol(instrumentId, exchangeId) == <<instrumentId, exchangeId>>

parseSymbol(symbol) == <<symbol[1], symbol[2]>>

\* ------------------------------------------------------ position accounting

ZeroBucket == [position |-> 0, frozen |-> 0]

ZeroPosition ==
    [today |-> [long |-> ZeroBucket, short |-> ZeroBucket],
     history |-> [long |-> ZeroBucket, short |-> ZeroBucket],
     pending |-> [long |-> 0, short |-> 0]]

\* _ensurePositionInfo: the positions map with a (zeroed) row for symbol.
EnsurePositionInfo(pmap, symbol) ==
    IF MapHas(pmap, symbol) THEN pmap ELSE MapSet(pmap, symbol, ZeroPosition)

FloorSubBug(a, v) == a - v

\* if (a >= v) a -= v; else a = 0;
FloorSub(a, v) == IF a >= v THEN a - v ELSE 0

Opposite(side) == IF side = "long" THEN "short" ELSE "long"

CloseFieldHistoryOnly(p, opp, fld, volume) ==
    [p EXCEPT !.history[opp][fld] = IF @ >= volume THEN @ - volume ELSE 0]

\* The "close" branch for one field: history first, the rest from today.
CloseField(p, opp, fld, volume) ==
    IF p.history[opp][fld] >= volume
    THEN [p EXCEPT !.history[opp][fld] = @ - volume]
    ELSE LET rest == volume - p.history[opp][fld]
             q == [p EXCEPT !.history[opp][fld] = @ - p.history[opp][fld]]
         IN IF rest > 0
            THEN [q EXCEPT !.today[opp][fld] = FloorSub(@, rest)]
            ELSE q

\* _calcPosition on one row.
CalcPositionRow(p, side, offset, volume) ==
    CASE offset = "open" ->
           [p EXCEPT !.today[side].position = @ + volume,
                     !.pending[side] = FloorSub(@, volume)]
      [] offset = "close" ->
           CloseField(CloseField(p, Opposite(side), "position", volume),
                      Opposite(side), "frozen", volume)
      [] offset = "close-today" ->
           [p EXCEPT !.today[Opposite(side)].position = FloorSub(@, volume),
                     !.today[Opposite(side)].frozen = FloorSub(@, volume)]

\* _calcPosition
CalcPosition(pmap, symbol, side, offset, volume) ==
    LET m == EnsurePositionInfo(pmap, symbol)
    IN [m EXCEPT ![symbol] = CalcPositionRow(m[symbol], side, offset, volume)]

\* _recordPending
RecordPending(pmap, symbol, side, offset, volume) ==
    IF offset # "open" THEN pmap
    ELSE LET m == EnsurePositionInfo(pmap, symbol)
         IN [m EXCEPT ![symbol].pending[side] = @ + volume]

\* _recoverPending
RecoverPending(pmap, symbol, side, offset, volume) ==
    IF offset # "open" THEN pmap
    ELSE IF ~MapHas(pmap, symbol) THEN pmap
    ELSE [pmap EXCEPT ![symbol].pending[side] = @ - volume]

FreezePositionInHistory(pmap, symbol, side, offset, volume) ==
    IF ~MapHas(pmap, symbol) \/ offset = "open" THEN pmap
    ELSE [pmap EXCEPT ![symbol].history[IF side = "long" THEN "short" ELSE "long"].frozen =
                         @ + volume]

\* _freezePosition
FreezePosition(pmap, symbol, side, offset, volume) ==
    IF ~MapHas(pmap, symbol) THEN pmap
    ELSE CASE offset = "close" ->
                [pmap EXCEPT ![symbol].history[Opposite(side)].frozen = @ + volume]
           [] offset = "close-today" ->
                [pmap EXCEPT ![symbol].today[Opposite(side)].frozen = @ + volume]
           [] OTHER -> pmap

\* _unfreezePosition
UnfreezePosition(pmap, symbol, side, offset, volume) ==
    IF ~MapHas(pmap, symbol) THEN pmap
    ELSE CASE offset = "close" ->
                [pmap EXCEPT ![symbol].history[Opposite(side)].frozen =
                                 FloorSub(@, volume)]
           [] offset = "close-today" ->
                [pmap EXCEPT ![symbol].today[Opposite(side)].frozen =
                                 FloorSub(@, volume)]
           [] OTHER -> pmap

\* Every field of a position row is >= 0.
NonNegativeRow(p) ==
    /\ \A d \in {"today", "history"} : \A s \in Sides :
          p[d][s].position >= 0 /\ p[d][s].frozen >= 0
    /\ \A s \in Sides : p.pending[s] >= 0

\* ------------------------------------------------------------ ctp typedefs

\* ctp.DirectionType
Directions == {"Buy", "Sell"}

\* ctp.OffsetFlagType (the flags the engine itself submits)
OffsetFlags == {"Open", "Close", "CloseToday"}

\* _calcSideType
CalcSideType(direction) == IF direction = "Buy" THEN "long" ELSE "short"

\* _toDirection
ToDirection(side) == IF side = "long" THEN "Buy" ELSE "Sell"

\* _calcOffsetType
CalcOffsetType(flag) ==
    CASE flag = "Open" -> "open"
      [] flag = "CloseToday" -> "close-today"
      [] OTHER -> "close"

\* _toOffsetFlag
ToOffsetFlag(offset) ==
    CASE offset = "open" -> "Open"
      [] offset = "close" -> "Close"
      [] offset = "close-today" -> "CloseToday"

\* _calcOrderId: `${ExchangeID}:${TraderID}:${OrderLocalID}`
CalcOrderId(orderOrTrade) ==
    <<orderOrTrade.ExchangeID, orderOrTrade.TraderID, orderOrTrade.OrderLocalID>>

CalcOrderStatusByRawOnly(order, traded) ==
    CASE order.OrderStatus = "Unknown" -> "submitted"
      [] order.OrderStatus = "AllTraded" -> "filled"
      [] order.OrderStatus = "Canceled" -> "canceled"
      [] OTHER -> "partially-filled"

\* _calcOrderStatus(order, traded?); a missing traded and traded = 0 are both
\* falsy in `traded && ...`, so the missing argument is passed as 0.
CalcOrderStatus(order, traded) ==
    CASE order.OrderStatus = "Unknown" -> "submitted"
      [] order.OrderStatus = "AllTraded" -> "filled"
      [] order.OrderStatus = "Canceled" ->
           IF order.OrderSubmitStatus \in
                {"InsertRejected", "CancelRejected", "ModifyRejected"}
           THEN "rejected" ELSE "canceled"
      [] OTHER ->
           IF traded # 0 /\ order.VolumeTotalOriginal = traded
           THEN "filled" ELSE "partially-filled"

\* _toTradeData
ToTradeData(trade) == [id |-> trade.TradeID, volume |-> trade.Volume]

\* trades.map(_toTradeData)
RECURSIVE MapToTradeData(_)
MapToTradeData(ts) ==
    IF ts = <<>> THEN <<>> ELSE <<ToTradeData(Head(ts))>> \o MapToTradeData(Tail(ts))

\* trades.map((trade) => trade.Volume).reduce((a, b) => a + b, 0)
RECURSIVE SumVolume(_)
SumVolume(ts) == IF ts = <<>> THEN 0 ELSE Head(ts).Volume + SumVolume(Tail(ts))

\* this.trades.get(orderId) ?? []
TradesOf(tmap, orderId) == IF MapHas(tmap, orderId) THEN tmap[orderId] ELSE <<>>

\* _toOrderData, against a given trades map
ToOrderData(tmap, order) ==
    LET orderId == CalcOrderId(order)
        ts == TradesOf(tmap, orderId)
        traded == SumVolume(ts)
    IN [id |-> orderId,
        symbol |-> MkSymbol(order.InstrumentID, order.ExchangeID),
        side |-> CalcSideType(order.Direction),
        offset |-> CalcOffsetType(order.CombOffsetFlag),
        volume |-> order.VolumeTotalOriginal,
        traded |-> traded,
        status |-> CalcOrderStatus(order, traded),
        trades |-> MapToTradeData(ts)]

ZeroStatistic == [places |-> 0, entrusts |-> 0, filleds |-> 0, cancels |-> 0, rejects |-> 0]

\* _ensureOrderStatistic
EnsureOrderStatistic(smap, symbol) ==
    IF MapHas(smap, symbol) THEN smap ELSE MapSet(smap, symbol, ZeroStatistic)

\* statistic.<field> += 1
BumpStatistic(smap, symbol, fld) ==
    LET m == EnsureOrderStatistic(smap, symbol)
    IN [m EXCEPT ![symbol][fld] = @ + 1]

\* ------------------------------------------------------------------ state

VARIABLES
    instruments,      \* Trader.instruments: instrumentId -> InstrumentField
    positions,        \* Trader.positions: symbol -> PositionInfo
    orders,           \* Trader.orders: orderId -> OrderField (last raw order)
    trades,           \* Trader.trades: orderId -> TradeField[]
    orderStatistics,  \* Trader.orderStatistics: symbol -> OrderStat
    placeOrders,      \* Trader.placeOrders: requestId -> receiver
    orderRef,         \* Trader.orderRef
    receivers,        \* Trader.receivers (order receivers, in registration order)
    sleeping,         \* placements suspended in _withRetry's sleep
    gwRequestId,      \* gateway: ctp.getLastRequestId()
    gw,               \* gateway: the orders it accepted, by OrderLocalID
    positionDetailsChanged, \* Trader.positionDetailsChanged
    calls,            \* callbacks delivered by the last step, in order
    observe           \* whether this behaviour records calls (fixed by Init)

ordVars == <<instruments, positions, orders, trades, orderStatistics, placeOrders,
             orderRef, receivers, sleeping, gwRequestId, gw, positionDetailsChanged,
             calls, observe>>

VARIABLES
    subscribers,      \* Market.subscribers: instrumentId -> receivers
    recordings,       \* Market.recordings
    symbols,          \* Market.symbols: instrumentId -> symbol
    recorder,         \* Market.recorder / recorderSymbols are set (setRecorder)
    mdSleeping,       \* market requests suspended in _withRetry's sleep
    mdFailed,         \* a market request returned a value other than 0, -2, -3
    mdCalls,          \* calls made on the market router so far
    wire,             \* gateway: instrumentIds subscribed on the network
    wireSubs,         \* gateway: per instrumentId, times sent in subscribeMarketData
    wireUnsubs,       \* gateway: per instrumentId, times sent in unsubscribeMarketData
    balance,          \* per (symbol, receiver): subscribe calls minus unsubscribe calls
    ordered           \* every unsubscribe call so far followed its subscribe call

mktVars == <<subscribers, recordings, symbols, recorder, mdSleeping, mdFailed, mdCalls,
             wire, wireSubs, wireUnsubs, balance, ordered>>

VARIABLES
    marginRates,      \* Trader.marginRates: instrumentId -> InstrumentMarginRateField
    commRates,        \* Trader.commRates: instrumentId -> InstrumentCommissionRateField
    marginRatesQueue, \* Trader.marginRatesQueue: {symbol, receiver} in call order
    commRatesQueue,   \* Trader.commRatesQueue
    rateSleeping,     \* rate requests suspended in _withRetry's sleep
    hung,             \* a rate-queue loop is spinning and never returns
    rateInflight,     \* gateway: rate requests accepted and not yet answered
    rateSent,         \* gateway: per kind, rate requests accepted so far
    rateAsked,        \* per kind, the {symbol, receiver} of every query call, in order
    rateLog,          \* per kind, every receiver callback, in order
    rateFirst         \* per kind, the first response and the calls made before it

rateVars == <<marginRates, commRates, marginRatesQueue, commRatesQueue, rateSleeping, hung,
              rateInflight, rateSent, rateAsked, rateLog, rateFirst>>

\* The order state apart from the callbacks of the last step.
ordState == <<instruments, positions, orders, trades, orderStatistics, placeOrders,
              orderRef, receivers, sleeping, gwRequestId, gw, positionDetailsChanged,
              observe>>

VARIABLES
    traderApi,        \* Trader.traderApi is set (open was called)
    fired,            \* the `fired` flag in the closure of Trader.open
    tradingDay,       \* Trader.tradingDay
    frontId,          \* Trader.frontId
    sessionId,        \* Trader.sessionId
    loginSleeping,    \* pipeline requests suspended in _withRetry's sleep
    connected,        \* gateway: the front connection is up
    inflight,         \* gateway: pipeline requests accepted and not yet answered
    reconnects,       \* gateway: connections lost so far
    firstSubmitted,   \* pipeline requests in the order the gateway first accepted them
    answeredOk,       \* pipeline requests answered to the end without error
    orderOk,          \* each first acceptance followed the previous request's answer
    opens,            \* lifecycle.onOpen calls so far
    lastRsp           \* the pipeline response the last step handled (<<>>: none)

loginVars == <<traderApi, fired, tradingDay, frontId, sessionId, loginSleeping, connected,
               inflight, reconnects, firstSubmitted, answeredOk, orderOk, opens, lastRsp>>

VARIABLES
    cancelOrders,     \* Trader.cancelOrders: requestId -> receiver
    marketOrdersQueue, \* Trader.marketOrdersQueue: instrumentId -> Denque (its reference)
    queueHeap,        \* the Denque objects created so far, by reference: MarketOrder[]
    priceLimit,       \* Trader.priceLimit: instrumentId -> PriceRange
    reqSleeping,      \* depth and cancel requests suspended in _withRetry's sleep
    gwReqs,           \* gateway: requests accepted and not yet answered
    callLog,          \* every placeOrder / cancelOrder call so far, in order
    outcomes,         \* per receiver, its place / cancel result callbacks, in order
    stale,            \* requestIds that were correlated when a disconnect cleared the maps
    lastStep          \* the call or gateway event the last step handled (arg: the
                      \* rspInfo and the record of a depth response)

reqVars == <<cancelOrders, marketOrdersQueue, queueHeap, priceLimit, reqSleeping, gwReqs,
             callLog, outcomes, stale, lastStep>>

VARIABLES
    strategies,       \* Broker.strategies, in registration order
    placeOrderRiskManagers,  \* Broker.placeOrderRiskManagers, in registration order
    cancelOrderRiskManagers, \* Broker.cancelOrderRiskManagers
    traderLifecycle,  \* whose lifecycle Trader.open was given: "listener" or "broker"
    marketApi,        \* Market.marketApi is set (open was called)
    marketFired,      \* the `fired` flag in the closure of Market.open
    marketLink,       \* gateway: the market front is "down", "asked" to log in, or "in"
    marketLogins,     \* gateway: RspUserLogin responses of the market front so far
    starts,           \* Broker.start calls so far
    brokerCall,       \* the last Broker.placeOrder / cancelOrder call and what each
                      \* risk manager answers in it
    brokerLog         \* every call the Broker made so far, in order

brkVars == <<strategies, placeOrderRiskManagers, cancelOrderRiskManagers, traderLifecycle,
             marketApi, marketFired, marketLink, marketLogins, starts, brokerCall,
             brokerLog>>

VARIABLES
    lastTick,         \* Market.lastTicks entry of the instrument: <<>> or <<tick>>
    tapeOf,           \* the (tick, preTick) of the last calcTapeData call
    tape,             \* what that call returned: <<>> or <<TapeData>>
    bar,              \* BarGenerator.bar: <<>> (undefined) or <<BarInfo>>
    barLog,           \* the onBar / onUpdateBar calls made so far, in order
    maxVolume,        \* BarGenerator.maxVolume: 0 for one-minute bars
    barReceivers,     \* BarGenerator.receivers, in registration order
    shouldUpdate,     \* BarGenerator.shouldUpdate
    bars,             \* the argument of the last mergeBarData call
    merged            \* what that call returned: <<>> (undefined) or <<BarData>>

barVars == <<lastTick, tapeOf, tape, bar, barLog, maxVolume, barReceivers, shouldUpdate,
             bars, merged>>

VARIABLES
    retry,            \* the _withRetry calls under way: where each is in the loop,
                      \* the last value its request returned, what it resolved to
    lastRequestId     \* gateway: ctp.getLastRequestId()

retryVars == <<retry, lastRequestId>>

VARIABLES
    positionDetails,      \* Trader.positionDetails: the records of the last batch
    positionDetailsQueue, \* Trader.positionDetailsQueue: receivers waiting for a batch
    pdSleeping,           \* the position-details request is in _withRetry's sleep
    pdInflight,           \* gateway: position-details requests accepted, not yet answered
    pdSent,               \* gateway: position-details requests accepted so far
    pdCalls,              \* calls of queryPositionDetails so far
    pdTradeSince,         \* an RtnTrade was handled since the last request was accepted
    pdLog                 \* every callback of the position-details query, in order

detVars == <<positionDetails, positionDetailsQueue, pdSleeping, pdInflight, pdSent, pdCalls,
             pdTradeSince, pdLog>>

VARIABLES
    marketTradingDay,     \* Market.tradingDay
    marketDay             \* gateway: what marketApi.getTradingDay() returned at the
                          \* last login of the market front (<<>>: no login yet)

dayVars == <<marketTradingDay, marketDay>>

VARIABLES
    fanout,               \* the receivers.forEach of the depth-data handler under way:
                          \* where it is, the length it captured, whether the array
                          \* it walks is still the one stored in subscribers
    tickLog               \* the onTick calls made for the last tick, in order

fanVars == <<fanout, tickLog>>

vars == <<ordVars, mktVars, rateVars, loginVars, reqVars, brkVars, barVars, retryVars,
          detVars, dayVars, fanVars>>

\* ------------------------------------------------------- gateway adapter

\* The values a gateway request function returns: 0 accepted, -2 / -3 flow
\* control, any other value (here -1) a terminal failure.
RetCodes == {0, -1, -2, -3}

\* _withRetry, one pass of its loop on the request's return value:
\* "done" (return getLastRequestId()), "sleep" (await _sleep, then again),
\* "fail" (return retval).
RetryStep(retval) ==
    CASE retval = 0 -> "done"
      [] retval = -2 \/ retval = -3 -> "sleep"
      [] OTHER -> "fail"

\* ----------------------------------------------------- trading coordinator

\* The instrument universe loaded by the login pipeline.
LoadedInstruments ==
    "X" :> [InstrumentID |-> "X", ExchangeID |-> "DCE", ProductClass |-> "Futures"]

\* Symbols a strategy may name: known, wrong exchange, unknown instrument.
PlaceSymbols == {MkSymbol("X", "DCE"), MkSymbol("X", "SHFE"), MkSymbol("U", "DCE")}

\* _toSymbol (defined when the instrument is known)
ToSymbol(imap, instrumentId) ==
    MkSymbol(imap[instrumentId].InstrumentID, imap[instrumentId].ExchangeID)

\* receivers.forEach((receiver) => receiver.<fn>(arg))
ForEachReceiver(rs, fn, arg) ==
    [i \in 1..Len(rs) |-> [to |-> rs[i], fn |-> fn, arg |-> arg]]

\* The callbacks of a step, kept when the behaviour observes them.
Deliver(cs) == calls' = IF observe THEN cs ELSE <<>>

\* The request accepted: the .then branch of _placeLimitOrder.
PlaceAccepted(symbol, offset, side, volume, receiver) ==
    /\ gwRequestId' = gwRequestId + 1
    /\ gw' = Append(gw, [InstrumentID |-> parseSymbol(symbol)[1],
                         ExchangeID |-> instruments[parseSymbol(symbol)[1]].ExchangeID,
                         Direction |-> ToDirection(side),
                         CombOffsetFlag |-> ToOffsetFlag(offset),
                         VolumeTotalOriginal |-> volume,
                         OrderStatus |-> "None", OrderSubmitStatus |-> "None",
                         matched |-> 0, sent |-> 0])
    /\ orderStatistics' = BumpStatistic(orderStatistics, symbol, "places")
    /\ placeOrders' = MapSet(placeOrders, gwRequestId', receiver)
    /\ Deliver(<<[to |-> receiver, fn |-> "onPlaceOrderSent", arg |-> orderRef']>>)

\* One submission attempt of _placeLimitOrder's request closure and what
\* follows from its return value.
PlaceAttempt(symbol, offset, side, volume, receiver, retval, rest) ==
    /\ orderRef < MaxOrderRef
    /\ orderRef' = orderRef + 1
    /\ CASE RetryStep(retval) = "done" ->
              /\ PlaceAccepted(symbol, offset, side, volume, receiver)
              /\ sleeping' = rest
         [] RetryStep(retval) = "sleep" ->
              /\ sleeping' = Append(rest, [symbol |-> symbol, offset |-> offset,
                                           side |-> side, volume |-> volume,
                                           receiver |-> receiver])
              /\ Deliver(<<>>)
              /\ UNCHANGED <<gwRequestId, gw, orderStatistics, placeOrders>>
         [] OTHER ->
              /\ sleeping' = rest
              /\ Deliver(<<[to |-> receiver, fn |-> "onPlaceOrderError",
                            arg |-> "Request Error"]>>)
              /\ UNCHANGED <<gwRequestId, gw, orderStatistics, placeOrders>>

\* placeOrder(symbol, offset, side, volume, price, "limit", receiver). The
\* early returns depend on symbol and volume only, so offset, side and the
\* gateway's return value are drawn where the request is submitted.
PlaceOrder(symbol, volume, receiver) ==
    LET instrumentId == parseSymbol(symbol)[1]
        exchangeId == parseSymbol(symbol)[2]
        reject(reason) ==
            /\ Deliver(<<[to |-> receiver, fn |-> "onPlaceOrderError", arg |-> reason]>>)
            /\ UNCHANGED <<orderRef, sleeping, gwRequestId, gw, orderStatistics,
                           placeOrders>>
    IN /\ CASE volume <= 0 -> reject("Invalid Volume")
            [] volume > 0 /\ ~MapHas(instruments, instrumentId) ->
                 reject("Instrument Not Found")
            [] volume > 0 /\ MapHas(instruments, instrumentId)
                 /\ exchangeId # instruments[instrumentId].ExchangeID ->
                 reject("Exchange Id Error")
            [] OTHER ->
                 \E offset \in Offsets, side \in Sides, retval \in RetCodes :
                    /\ Len(gw) + Len(sleeping) < MaxOrders
                    /\ PlaceAttempt(symbol, offset, side, volume, receiver, retval,
                                    sleeping)
       /\ UNCHANGED <<instruments, positions, orders, trades, receivers,
                      positionDetailsChanged, observe>>

\* Timers of equal delay fire in the order they were set: the head wakes.
RetryPlace(retval) ==
    LET t == Head(sleeping)
        rest == Tail(sleeping)
    IN /\ sleeping # <<>>
       /\ PlaceAttempt(t.symbol, t.offset, t.side, t.volume, t.receiver, retval, rest)
       /\ UNCHANGED <<instruments, positions, orders, trades, receivers,
                      positionDetailsChanged, observe>>

IsDuplicateNever(omap, order) == FALSE

\* The RtnOrder handler's test of a repeated notification: a stored order
\* of the same id with the same OrderSubmitStatus and OrderStatus.
IsDuplicate(omap, order) ==
    LET orderId == CalcOrderId(order)
    IN /\ MapHas(omap, orderId)
       /\ order.OrderSubmitStatus = omap[orderId].OrderSubmitStatus
       /\ order.OrderStatus = omap[orderId].OrderStatus

\* The RtnOrder handler.
RtnOrder(order) ==
    LET orderId == CalcOrderId(order)
        duplicate == IsDuplicate(orders, order)
        status == CalcOrderStatus(order, 0)
        orderData == ToOrderData(trades, order)
        known == MapHas(instruments, order.InstrumentID)
        symbol == ToSymbol(instruments, order.InstrumentID)
    IN IF duplicate
       THEN /\ Deliver(<<>>)
            /\ UNCHANGED <<orders, positions, orderStatistics>>
       ELSE /\ orders' = MapSet(orders, orderId, order)
            /\ positions' =
                 CASE status = "submitted" /\ known ->
                        IF orderData.offset = "open"
                        THEN RecordPending(positions, symbol, orderData.side,
                                           orderData.offset, orderData.volume)
                        ELSE FreezePosition(positions, symbol, orderData.side,
                                            orderData.offset, orderData.volume)
                   [] status = "canceled" /\ known ->
                        IF orderData.offset = "open"
                        THEN RecoverPending(positions, symbol, orderData.side,
                                            orderData.offset, orderData.volume)
                        ELSE UnfreezePosition(positions, symbol, orderData.side,
                                              orderData.offset, orderData.volume)
                   [] OTHER -> positions
            /\ orderStatistics' =
                 CASE status = "submitted" /\ known ->
                        BumpStatistic(orderStatistics, symbol, "entrusts")
                   [] status = "filled" /\ known ->
                        BumpStatistic(orderStatistics, symbol, "filleds")
                   [] status = "canceled" /\ known ->
                        BumpStatistic(orderStatistics, symbol, "cancels")
                   [] status = "rejected" /\ known ->
                        BumpStatistic(orderStatistics, symbol, "rejects")
                   [] OTHER -> orderStatistics
            /\ Deliver(
                 CASE status = "submitted" -> ForEachReceiver(receivers, "onEntrust", orderData)
                   [] status = "canceled" -> ForEachReceiver(receivers, "onCancel", orderData)
                   [] status = "rejected" -> ForEachReceiver(receivers, "onReject", orderData)
                   [] OTHER -> <<>>)

\* The RtnTrade handler.
RtnTrade(trade) ==
    LET orderId == CalcOrderId(trade)
        newTrades == MapSet(trades, orderId, Append(TradesOf(trades, orderId), trade))
    IN /\ trades' = newTrades
       /\ positionDetailsChanged' = TRUE
       /\ IF MapHas(orders, orderId)
          THEN LET order == orders[orderId]
                   orderData == ToOrderData(newTrades, order)
                   tradeData == ToTradeData(trade)
               IN /\ positions' =
                       IF MapHas(instruments, order.InstrumentID)
                       THEN CalcPosition(positions, ToSymbol(instruments, order.InstrumentID),
                                         orderData.side, orderData.offset, tradeData.volume)
                       ELSE positions
                  /\ Deliver(ForEachReceiver(receivers, "onTrade",
                                              [order |-> orderData, trade |-> tradeData]))
          ELSE /\ Deliver(<<>>)
               /\ UNCHANGED positions

\* queryOrders(receiver): a snapshot of every order.
QueryOrders(receiver) ==
    /\ Deliver(<<[to |-> receiver, fn |-> "onOrders",
                   arg |-> {ToOrderData(trades, orders[id]) : id \in DOMAIN orders}]>>)
    /\ UNCHANGED <<instruments, positions, orders, trades, orderStatistics, placeOrders,
                   orderRef, receivers, sleeping, gwRequestId, gw,
                   positionDetailsChanged, observe>>

\* ------------------------------------------------------------ rate queries

RateKinds == {"margin", "commission"}

RateSymbols == {MkSymbol("X", "DCE"), MkSymbol("Y", "DCE")}

RateReceivers == {"r1", "r2"}

\* The ratios a rate record of the gateway carries.
RateRatios == {1, 2}

\* The rspInfo of an error response.
ErrorInfos == {[ErrorID |-> 1, ErrorMsg |-> "e1"], [ErrorID |-> 2, ErrorMsg |-> "e2"]}

\* CallbackOptions.rspInfo: absent (<<>>) or present (<<info>>).
RspInfos == {<<>>} \cup {<<info>> : info \in ErrorInfos}

IsErrorRespIgnored(rspInfo) == FALSE

\* _isErrorResp: whether the response is an error, and the lifecycle call it
\* makes, onError(error, `${ErrorID}:${ErrorMsg}`).
IsErrorResp(rspInfo) == rspInfo # <<>>

OnError(rspInfo, error) ==
    [to |-> "lifecycle", fn |-> "onError",
     arg |-> <<error, <<rspInfo[1].ErrorID, ":", rspInfo[1].ErrorMsg>>>>]

\* _toMarginRate / _toCommissionRate: the caller's symbol with the record's ratios.
ToRate(symbol, rate) == [symbol |-> symbol, ratio |-> rate.Ratio]

RatesOf(kind) == IF kind = "margin" THEN marginRates ELSE commRates

QueueOf(kind) == IF kind = "margin" THEN marginRatesQueue ELSE commRatesQueue

RateCallback(kind) == IF kind = "margin" THEN "onMarginRate" ELSE "onCommissionRate"

RateError(kind) ==
    IF kind = "margin" THEN "query-margin-rate-error" ELSE "query-commission-rate-error"

ProcessRatesQueueNoDrain(queue, cache, answered) ==
    [queue |-> queue, answered |-> answered, hung |-> FALSE]

\* _processMarginRatesQueue / _processCommissionRatesQueue on a queue and a
\* cache: heads whose instrument is cached are answered and shifted; at a head
\* that is not cached the loop issues a request and, the head staying where it
\* is, takes the same branch again without end (hung).
RECURSIVE ProcessRatesQueue(_, _, _)
ProcessRatesQueue(queue, cache, answered) ==
    IF queue = <<>>
    THEN [queue |-> queue, answered |-> answered, hung |-> FALSE]
    ELSE LET nextQuery == Head(queue)
             instrumentId == parseSymbol(nextQuery.symbol)[1]
         IN IF MapHas(cache, instrumentId)
            THEN ProcessRatesQueue(
                     Tail(queue), cache,
                     Append(answered, [receiver |-> nextQuery.receiver,
                                       rate |-> <<ToRate(nextQuery.symbol,
                                                         cache[instrumentId])>>]))
            ELSE [queue |-> queue, answered |-> answered, hung |-> TRUE]

\* The receiver callbacks of a rate handler as lifecycle-style calls.
RateCalls(kind, answered) ==
    [i \in 1..Len(answered) |->
        [to |-> answered[i].receiver, fn |-> RateCallback(kind), arg |-> answered[i].rate]]

\* The cache and the queue of one kind get new values.
SetRates(kind, cache, queue) ==
    IF kind = "margin"
    THEN /\ marginRates' = cache
         /\ marginRatesQueue' = queue
         /\ UNCHANGED <<commRates, commRatesQueue>>
    ELSE /\ commRates' = cache
         /\ commRatesQueue' = queue
         /\ UNCHANGED <<marginRates, marginRatesQueue>>

\* One pass of _withRetry over a rate request.
RateAttempt(kind, instrumentId, retval, rest) ==
    CASE RetryStep(retval) = "done" ->
           /\ rateInflight' = Append(rateInflight,
                                     [kind |-> kind, InstrumentID |-> instrumentId])
           /\ rateSent' = [rateSent EXCEPT ![kind] = @ + 1]
           /\ rateSleeping' = rest
      [] RetryStep(retval) = "sleep" ->
           /\ rateSleeping' = Append(rest, [kind |-> kind, InstrumentID |-> instrumentId])
           /\ UNCHANGED <<rateInflight, rateSent>>
      [] OTHER ->
           /\ rateSleeping' = rest
           /\ UNCHANGED <<rateInflight, rateSent>>

\* queryMarginRate(symbol, receiver) / queryCommissionRate(symbol, receiver)
QueryRate(kind, symbol, receiver, retval) ==
    LET instrumentId == parseSymbol(symbol)[1]
        cache == RatesOf(kind)
        hit == [receiver |-> receiver, rate |-> <<ToRate(symbol, cache[instrumentId])>>]
        queue == Append(QueueOf(kind), [symbol |-> symbol, receiver |-> receiver])
    IN /\ ~hung
       /\ Len(rateAsked["margin"]) + Len(rateAsked["commission"]) < MaxRateCalls
       /\ rateAsked' = [rateAsked EXCEPT
                           ![kind] = Append(@, [symbol |-> symbol, receiver |-> receiver])]
       /\ IF MapHas(cache, instrumentId)
          THEN /\ rateLog' = [rateLog EXCEPT ![kind] = Append(@, hit)]
               /\ Deliver(RateCalls(kind, <<hit>>))
               /\ UNCHANGED <<marginRates, commRates, marginRatesQueue, commRatesQueue,
                              rateSleeping, rateInflight, rateSent>>
          ELSE /\ SetRates(kind, cache, queue)
               /\ IF Len(queue) = 1
                  THEN RateAttempt(kind, instrumentId, retval, rateSleeping)
                  ELSE UNCHANGED <<rateSleeping, rateInflight, rateSent>>
               /\ Deliver(<<>>)
               /\ UNCHANGED rateLog
       /\ UNCHANGED <<hung, rateFirst>>
       /\ UNCHANGED <<ordState, mktVars, loginVars, reqVars, brkVars, barVars, retryVars, detVars, dayVars, fanVars>>

\* A suspended rate request wakes and _withRetry calls the request again.
RateRetry(retval) ==
    /\ ~hung
    /\ rateSleeping # <<>>
    /\ RateAttempt(Head(rateSleeping).kind, Head(rateSleeping).InstrumentID, retval,
                   Tail(rateSleeping))
    /\ Deliver(<<>>)
    /\ UNCHANGED <<marginRates, commRates, marginRatesQueue, commRatesQueue, hung,
                   rateAsked, rateLog, rateFirst>>
    /\ UNCHANGED <<ordState, mktVars, loginVars, reqVars, brkVars, barVars, retryVars, detVars, dayVars, fanVars>>

\* The RspQryInstrumentMarginRate / RspQryInstrumentCommissionRate handler on
\* a response (rate: <<>> or <<record>>) whose rspInfo is absent or present.
RspQryInstrumentRate(kind, rate, rspInfo) ==
    LET queue == QueueOf(kind)
        query == IF queue = <<>> THEN <<>> ELSE <<Head(queue)>>
        shifted == IF queue = <<>> THEN queue ELSE Tail(queue)
        failed == IF query = <<>> THEN <<>>
                  ELSE <<[receiver |-> query[1].receiver, rate |-> <<>>]>>
        cache == IF rate = <<>> THEN RatesOf(kind)
                 ELSE MapSet(RatesOf(kind), rate[1].InstrumentID, rate[1])
        first == IF rate = <<>> \/ query = <<>> THEN <<>>
                 ELSE <<[receiver |-> query[1].receiver,
                         rate |-> <<ToRate(query[1].symbol, rate[1])>>]>>
        done == ProcessRatesQueue(shifted, cache, first)
    IN IF IsErrorResp(rspInfo)
       THEN /\ SetRates(kind, RatesOf(kind), shifted)
            /\ rateLog' = [rateLog EXCEPT ![kind] = @ \o failed]
            /\ Deliver(<<OnError(rspInfo, RateError(kind))>> \o RateCalls(kind, failed))
            /\ UNCHANGED hung
       ELSE /\ SetRates(kind, cache, done.queue)
            /\ rateLog' = [rateLog EXCEPT ![kind] = @ \o done.answered]
            /\ Deliver(RateCalls(kind, done.answered))
            /\ hung' = done.hung

\* The gateway answers the rate request it accepted first; the handler runs.
GwRspRate(rate, rspInfo) ==
    LET request == Head(rateInflight)
        kind == request.kind
    IN /\ ~hung
       /\ rateInflight # <<>>
       /\ rate # <<>> => rate[1].InstrumentID = request.InstrumentID
       /\ rspInfo # <<>> => rate = <<>>
       /\ rateInflight' = Tail(rateInflight)
       /\ RspQryInstrumentRate(kind, rate, rspInfo)
       /\ rateFirst' =
            IF rateFirst[kind] # <<>> THEN rateFirst
            ELSE [rateFirst EXCEPT
                     ![kind] = <<[rate |-> rate, error |-> IsErrorResp(rspInfo),
                                  asked |-> Len(rateAsked[kind])]>>]
       /\ UNCHANGED <<rateSleeping, rateSent, rateAsked>>
       /\ UNCHANGED <<ordState, mktVars, loginVars, reqVars, brkVars, barVars, retryVars, detVars, dayVars, fanVars>>

\* Nothing cached, nothing queued.
InitRates ==
    /\ marginRates = EmptyMap
    /\ commRates = EmptyMap
    /\ marginRatesQueue = <<>>
    /\ commRatesQueue = <<>>
    /\ rateSleeping = <<>>
    /\ hung = FALSE
    /\ rateInflight = <<>>
    /\ rateSent = [kind \in RateKinds |-> 0]
    /\ rateAsked = [kind \in RateKinds |-> <<>>]
    /\ rateLog = [kind \in RateKinds |-> <<>>]
    /\ rateFirst = [kind \in RateKinds |-> <<>>]

\* ---------------------------------------------------------- login pipeline

\* The requests of the login pipeline, in the order the handlers chain them.
Pipeline ==
    <<"Authenticate", "UserLogin", "SettlementInfoConfirm", "QryOrder", "QryTrade",
      "QryInstrument", "QryInvestorPosition">>

Queries == {"QryOrder", "QryTrade", "QryInstrument", "QryInvestorPosition"}

\* The position of a request in the pipeline.
PipelineIndex(req) == CHOOSE i \in 1..Len(Pipeline) : Pipeline[i] = req

\* The error kind each handler passes to _isErrorResp.
ErrorKind(req) ==
    CASE req \in {"Authenticate", "UserLogin", "SettlementInfoConfirm"} -> "login-error"
      [] req = "QryOrder" -> "query-order-error"
      [] req = "QryTrade" -> "query-trade-error"
      [] req = "QryInstrument" -> "query-instrument-error"
      [] req = "QryInvestorPosition" -> "query-positions-error"

\* traderApi.getTradingDay()
TradingDays == {1, 2}

\* The records the gateway answers with, per request (none for the first and
\* third request).
LoginRecords(req) ==
    CASE req = "UserLogin" ->
           {[FrontID |-> 1, SessionID |-> n, MaxOrderRef |-> 0] : n \in {1, 2}}
      [] req = "QryOrder" ->
           {[ExchangeID |-> "DCE", TraderID |-> "T", OrderLocalID |-> 1,
             InstrumentID |-> "X", Direction |-> "Buy", CombOffsetFlag |-> "Open",
             VolumeTotalOriginal |-> 1, OrderStatus |-> "NoTradeQueueing",
             OrderSubmitStatus |-> "Accepted"]}
      [] req = "QryTrade" ->
           {[ExchangeID |-> "DCE", TraderID |-> "T", OrderLocalID |-> 1, TradeID |-> 1,
             Volume |-> 1]}
      [] req = "QryInstrument" ->
           {[InstrumentID |-> "X", ExchangeID |-> "DCE", ProductClass |-> class] :
               class \in {"Futures", "Spot"}}
      [] req = "QryInvestorPosition" ->
           {[InstrumentID |-> "X", ExchangeID |-> "DCE", PosiDirection |-> "Long",
             PositionDate |-> "History", Position |-> 1, TodayPosition |-> 0],
            [InstrumentID |-> "X", ExchangeID |-> "DCE", PosiDirection |-> "Short",
             PositionDate |-> "Today", Position |-> 1, TodayPosition |-> 1]}
      [] OTHER -> {}

\* const ExchangeSH = ["SHFE", "INE"]
ExchangeSH == {"SHFE", "INE"}

\* The RspQryInvestorPosition handler's update of the row of a position record.
AddPosition(pmap, position) ==
    LET known == MapHas(instruments, position.InstrumentID)
        symbol == ToSymbol(instruments, position.InstrumentID)
        m == EnsurePositionInfo(pmap, symbol)
        side == IF position.PosiDirection = "Long" THEN "long" ELSE "short"
    IN IF ~known THEN pmap
       ELSE IF position.PositionDate = "Today"
            THEN [m EXCEPT ![symbol].today[side].position =
                     @ + IF position.ExchangeID \in ExchangeSH
                         THEN position.TodayPosition ELSE position.Position]
            ELSE [m EXCEPT ![symbol].history[side].position =
                     @ + (position.Position - position.TodayPosition)]

DayChangedAlways(stored, reported) == TRUE

\* if (this.tradingDay !== tradingDay)
DayChanged(stored, reported) == stored # reported

ShouldFireAlways(f) == TRUE

\* if (!fired)
ShouldFire(f) == ~f

\* What a pipeline handler does to the trader's state on a response without
\* error: record is <<>> or <<record>>, day is traderApi.getTradingDay().
\* next is the request it submits (<<>>: none), open whether it calls onOpen.
LoginEffect(req, record, isLast, day) ==
    LET same == [orders |-> orders, trades |-> trades, instruments |-> instruments,
                 positions |-> positions, frontId |-> frontId, sessionId |-> sessionId,
                 orderRef |-> orderRef, tradingDay |-> tradingDay,
                 marginRates |-> marginRates, commRates |-> commRates,
                 orderStatistics |-> orderStatistics, fired |-> fired,
                 next |-> <<>>, open |-> FALSE, last |-> FALSE]
        newDay == [same EXCEPT !.marginRates = EmptyMap, !.commRates = EmptyMap,
                               !.orderStatistics = EmptyMap, !.tradingDay = day]
        stored == IF record = <<>> THEN orders
                  ELSE MapSet(orders, CalcOrderId(record[1]), record[1])
        pushed == IF record = <<>> THEN trades
                  ELSE MapSet(trades, CalcOrderId(record[1]),
                              Append(TradesOf(trades, CalcOrderId(record[1])), record[1]))
        listed == IF record # <<>> /\ record[1].ProductClass \in {"Futures", "Options"}
                  THEN MapSet(instruments, record[1].InstrumentID, record[1])
                  ELSE instruments
        added == IF record = <<>> THEN positions ELSE AddPosition(positions, record[1])
    IN CASE req = "Authenticate" -> [same EXCEPT !.next = <<"UserLogin">>]
         [] req = "UserLogin" ->
              [(IF DayChanged(tradingDay, day) THEN newDay ELSE same) EXCEPT
                  !.frontId = record[1].FrontID,
                  !.sessionId = record[1].SessionID,
                  !.orderRef = record[1].MaxOrderRef,
                  !.next = <<"SettlementInfoConfirm">>]
         [] req = "SettlementInfoConfirm" ->
              [same EXCEPT !.orders = EmptyMap, !.next = <<"QryOrder">>]
         [] req = "QryOrder" ->
              IF isLast
              THEN [same EXCEPT !.orders = stored, !.trades = EmptyMap,
                                !.next = <<"QryTrade">>]
              ELSE [same EXCEPT !.orders = stored]
         [] req = "QryTrade" ->
              IF isLast
              THEN [same EXCEPT !.trades = pushed, !.instruments = EmptyMap,
                                !.next = <<"QryInstrument">>]
              ELSE [same EXCEPT !.trades = pushed]
         [] req = "QryInstrument" ->
              IF isLast
              THEN [same EXCEPT !.instruments = listed, !.positions = EmptyMap,
                                !.next = <<"QryInvestorPosition">>]
              ELSE [same EXCEPT !.instruments = listed]
         [] req = "QryInvestorPosition" ->
              IF isLast
              THEN [same EXCEPT !.positions = added, !.fired = TRUE,
                                !.open = ShouldFire(fired), !.last = TRUE]
              ELSE [same EXCEPT !.positions = added]

\* One pass of _withRetry over a pipeline request; the gateway accepts a
\* request only while the front connection (conn) is up.
LoginAttempt(req, retval, rest, flying, conn) ==
    LET first == \A i \in 1..Len(firstSubmitted) : firstSubmitted[i] # req
        index == PipelineIndex(req)
    IN /\ retval = 0 => conn
       /\ CASE RetryStep(retval) = "done" ->
                 /\ inflight' = Append(flying, [req |-> req, sent |-> 0])
                 /\ firstSubmitted' =
                      IF first THEN Append(firstSubmitted, req) ELSE firstSubmitted
                 /\ orderOk' = (orderOk /\ ((first /\ index > 1) =>
                                               Pipeline[index - 1] \in answeredOk'))
                 /\ loginSleeping' = rest
            [] RetryStep(retval) = "sleep" ->
                 /\ loginSleeping' = Append(rest, req)
                 /\ inflight' = flying
                 /\ UNCHANGED <<firstSubmitted, orderOk>>
            [] OTHER ->
                 /\ loginSleeping' = rest
                 /\ inflight' = flying
                 /\ UNCHANGED <<firstSubmitted, orderOk>>

\* -------------------------------------------- order requests and their results

\* Number.MAX_VALUE, the gateway's mark of a missing price.
MaxValue == 999

\* isValidPrice: a price is present iff it is neither 0 nor the sentinel.
IsValidPrice(price) == price # 0 /\ price # MaxValue

\* The tick the fastQueryLastTick hook returns for the instrument: none
\* (<<>>, also when no hook is configured) or a tick of some trading day whose
\* circuit-breaker bands are present or missing.
FastTicks ==
    {<<>>} \cup
    {<<[tradingDay |-> day, limits |-> [upper |-> 120, lower |-> 80], bandings |-> b]>> :
        day \in TradingDays,
        b \in {[upper |-> 110, lower |-> 90], [upper |-> MaxValue, lower |-> 0]}}

\* The DepthMarketDataField the gateway answers a depth query with.
DepthRecords ==
    {[InstrumentID |-> "X", UpperLimitPrice |-> 120, LowerLimitPrice |-> 80,
      BandingUpperPrice |-> bu, BandingLowerPrice |-> bl] :
        bu \in {110, MaxValue}, bl \in {90, 0}}

PriceBoundsBothMissing(limits, bandings) ==
    LET isLimitPrice == ~IsValidPrice(bandings.upper) /\ ~IsValidPrice(bandings.lower)
    IN [isLimitPrice |-> isLimitPrice,
        upper |-> IF isLimitPrice THEN limits.upper ELSE bandings.upper,
        lower |-> IF isLimitPrice THEN limits.lower ELSE bandings.lower]

\* isLimitPrice and the upperPrice / lowerPrice derived from it.
PriceBounds(limits, bandings) ==
    LET isLimitPrice == ~IsValidPrice(bandings.upper) \/ ~IsValidPrice(bandings.lower)
    IN [isLimitPrice |-> isLimitPrice,
        upper |-> IF isLimitPrice THEN limits.upper ELSE bandings.upper,
        lower |-> IF isLimitPrice THEN limits.lower ELSE bandings.lower]

SidePriceSwapped(side, range) == IF side = "long" THEN range.lower ELSE range.upper

\* switch (side): a long order takes the upper price, a short one the lower.
SidePrice(side, range) == IF side = "long" THEN range.upper ELSE range.lower

RequestFailedNever(requestId) == FALSE

\* if (!requestId || requestId < 0) on the value _withRetry resolved to.
RequestFailed(requestId) == requestId = 0 \/ requestId < 0

NextOrderRefStuck(ref) == IF ref = 0 THEN 1 ELSE ref

\* ++this.orderRef
NextOrderRef(ref) == ref + 1

\* `${orderRef}`: the decimal digits of a number.
RECURSIVE ToDigits(_)
ToDigits(n) == IF n < 10 THEN <<n>> ELSE Append(ToDigits(n \div 10), n % 10)

\* parseInt on a string of decimal digits.
RECURSIVE ParseInt(_)
ParseInt(ds) ==
    IF Len(ds) = 1 THEN ds[1]
    ELSE 10 * ParseInt(SubSeq(ds, 1, Len(ds) - 1)) + ds[Len(ds)]

\* _calcReceiptId: `${FrontID}:${SessionID}:${parseInt(OrderRef)}`
CalcReceiptId(order) == <<order.FrontID, order.SessionID, ParseInt(order.OrderRef)>>

\* _parseTime on "hh:mm:ss" (here <<hh, mm, ss>>): hh * 10000 + mm * 100 + ss
ParseTime(time) == time[1] * 10000 + time[2] * 100 + time[3]

\* The cancelTime of _toOrderData: undefined (<<>>) when CancelTime is "".
CancelTimeOf(order) ==
    IF order.CancelTime = <<>> THEN <<>> ELSE <<ParseTime(order.CancelTime)>>

KeepMap(m) == m

\* Map.prototype.clear
ClearMap(m) == EmptyMap

\* The part of the state the request operations work on, as one value; calls
\* collects the callbacks of the step.
Cur ==
    [orderRef |-> orderRef, sleeping |-> sleeping, gwRequestId |-> gwRequestId, gw |-> gw,
     orderStatistics |-> orderStatistics, placeOrders |-> placeOrders,
     cancelOrders |-> cancelOrders, marketOrdersQueue |-> marketOrdersQueue,
     queueHeap |-> queueHeap, priceLimit |-> priceLimit, reqSleeping |-> reqSleeping,
     gwReqs |-> gwReqs, outcomes |-> outcomes, calls |-> <<>>]

\* The step ends in state s.
Commit(s) ==
    /\ orderRef' = s.orderRef
    /\ sleeping' = s.sleeping
    /\ gwRequestId' = s.gwRequestId
    /\ gw' = s.gw
    /\ orderStatistics' = s.orderStatistics
    /\ placeOrders' = s.placeOrders
    /\ cancelOrders' = s.cancelOrders
    /\ marketOrdersQueue' = s.marketOrdersQueue
    /\ queueHeap' = s.queueHeap
    /\ priceLimit' = s.priceLimit
    /\ reqSleeping' = s.reqSleeping
    /\ gwReqs' = s.gwReqs
    /\ outcomes' = s.outcomes
    /\ Deliver(s.calls)

\* receiver.<fn>(arg) on a place / cancel result receiver.
Result(s, receiver, fn, arg) ==
    [s EXCEPT !.calls = Append(@, [to |-> receiver, fn |-> fn, arg |-> arg]),
              !.outcomes[receiver] = Append(@, [fn |-> fn, arg |-> arg])]

\* The request closure of _placeLimitOrder called once, and its .then branch
\* when _withRetry resolves; t is the placement {symbol, offset, side, volume,
\* price, receiver}. The gateway accepts requests only while connected.
LimitAttempt(s, t, retval) ==
    LET ref == NextOrderRef(s.orderRef)
        requestId == s.gwRequestId + 1
        instrumentId == parseSymbol(t.symbol)[1]
        r == [s EXCEPT !.orderRef = ref]
        input == [InstrumentID |-> instrumentId,
                  ExchangeID |-> instruments[instrumentId].ExchangeID,
                  Direction |-> ToDirection(t.side),
                  CombOffsetFlag |-> ToOffsetFlag(t.offset),
                  VolumeTotalOriginal |-> t.volume,
                  OrderStatus |-> "None", OrderSubmitStatus |-> "None",
                  matched |-> 0, sent |-> 0,
                  OrderRef |-> ToDigits(ref), LimitPrice |-> t.price,
                  FrontID |-> frontId, SessionID |-> sessionId,
                  requestId |-> requestId, receiver |-> t.receiver]
        accepted == RetryStep(retval) = "done"
        resolved == IF accepted THEN requestId ELSE retval
        taken == IF accepted
                 THEN [r EXCEPT !.gwRequestId = requestId,
                                !.gw = Append(@, input),
                                !.gwReqs = @ \cup {[kind |-> "insert", requestId |-> requestId,
                                                    receiver |-> t.receiver]}]
                 ELSE r
    IN CASE RetryStep(retval) = "sleep" -> [r EXCEPT !.sleeping = Append(@, t)]
         [] RetryStep(retval) # "sleep" /\ RequestFailed(resolved) ->
              Result(taken, t.receiver, "onPlaceOrderError", "Request Error")
         [] OTHER ->
              Result([taken EXCEPT
                         !.orderStatistics = BumpStatistic(@, t.symbol, "places"),
                         !.placeOrders = MapSet(@, resolved, t.receiver)],
                     t.receiver, "onPlaceOrderSent", <<frontId, sessionId, ref>>)

\* _placeLimitOrder
PlaceLimitOrder(s, t, retval) ==
    LET instrumentId == parseSymbol(t.symbol)[1]
        exchangeId == parseSymbol(t.symbol)[2]
    IN IF ~MapHas(instruments, instrumentId)
       THEN Result(s, t.receiver, "onPlaceOrderError", "Instrument Not Found")
       ELSE IF exchangeId # instruments[instrumentId].ExchangeID
            THEN Result(s, t.receiver, "onPlaceOrderError", "Exchange Id Error")
            ELSE LimitAttempt(s, t, retval)

\* orders.forEach((order) => order.receiver.onPlaceOrderError("Request Error"))
\* over a queue's content; a queue holds its orders by the number of their call.
RECURSIVE ErrorEach(_, _)
ErrorEach(s, queue) ==
    IF queue = <<>> THEN s
    ELSE ErrorEach(Result(s, Head(queue), "onPlaceOrderError", "Request Error"),
                   Tail(queue))

\* _clearAllMarketOrders: the queues held by the map, in insertion order
\* (the order their Denque objects were created in), then the map is cleared.
ClearAllMarketOrders(s) ==
    LET held(q) == \E i \in DOMAIN s.marketOrdersQueue : s.marketOrdersQueue[i] = q
        RECURSIVE each(_, _)
        each(st, q) ==
            IF q > Len(st.queueHeap) THEN st
            ELSE each(IF held(q) THEN ErrorEach(st, st.queueHeap[q]) ELSE st, q + 1)
    IN [each(s, 1) EXCEPT !.marketOrdersQueue = ClearMap(@)]

\* The request closure of _placeMarketOrder called once, and its .then branch
\* when _withRetry resolves; d holds what the closure keeps: the order (by
\* the number of its call) and its reference to the Denque it created.
DepthAttempt(s, d, retval) ==
    LET requestId == s.gwRequestId + 1
        accepted == RetryStep(retval) = "done"
        resolved == IF accepted THEN requestId ELSE retval
        taken == IF accepted
                 THEN [s EXCEPT !.gwRequestId = requestId,
                                !.gwReqs = @ \cup {[kind |-> "depth", requestId |-> requestId,
                                                    receiver |-> d.receiver]}]
                 ELSE s
    IN CASE RetryStep(retval) = "sleep" -> [s EXCEPT !.reqSleeping = Append(@, d)]
         [] RetryStep(retval) # "sleep" /\ RequestFailed(resolved) ->
              [ErrorEach(taken, taken.queueHeap[d.queue]) EXCEPT
                  !.marketOrdersQueue = MapDelete(@, d.instrumentId)]
         [] OTHER -> [taken EXCEPT !.queueHeap[d.queue] = Append(@, d.receiver)]

\* _placeMarketOrder for the order t of call n; tick is what the
\* fastQueryLastTick hook returns.
PlaceMarketOrder(s, t, tick, retval) ==
    LET n == t.receiver
        instrumentId == parseSymbol(t.symbol)[1]
        exchangeId == parseSymbol(t.symbol)[2]
        limit(st, range) ==
            PlaceLimitOrder(st, [symbol |-> t.symbol, offset |-> t.offset, side |-> t.side,
                                 volume |-> t.volume, price |-> SidePrice(t.side, range),
                                 receiver |-> n], retval)
        bounds == PriceBounds(tick[1].limits, tick[1].bandings)
        created == Len(s.queueHeap) + 1
    IN CASE ~MapHas(instruments, instrumentId) ->
              Result(s, n, "onPlaceOrderError", "Instrument Not Found")
         [] MapHas(instruments, instrumentId)
              /\ exchangeId # instruments[instrumentId].ExchangeID ->
              Result(s, n, "onPlaceOrderError", "Exchange Id Error")
         [] OTHER ->
              IF MapHas(s.priceLimit, instrumentId)
              THEN limit(s, s.priceLimit[instrumentId])
              ELSE IF tick # <<>> /\ tick[1].tradingDay = tradingDay
              THEN limit([s EXCEPT !.priceLimit =
                             IF bounds.isLimitPrice
                             THEN MapSet(@, instrumentId, tick[1].limits) ELSE @],
                         bounds)
              ELSE IF MapHas(s.marketOrdersQueue, instrumentId)
              THEN [s EXCEPT !.queueHeap[s.marketOrdersQueue[instrumentId]] = Append(@, n)]
              ELSE DepthAttempt([s EXCEPT !.queueHeap = Append(@, <<>>),
                                          !.marketOrdersQueue =
                                              MapSet(@, instrumentId, created)],
                                [kind |-> "depth", receiver |-> n, queue |-> created,
                                 instrumentId |-> instrumentId],
                                retval)

\* orders.forEach(...) of the RspQryDepthMarketData handler: each queued order
\* goes to _placeLimitOrder at the price of its side; retvals[i] is what the
\* gateway returns to the i-th reqOrderInsert.
RECURSIVE DispatchEach(_, _, _, _)
DispatchEach(s, queue, range, retvals) ==
    IF queue = <<>> THEN s
    ELSE LET t == callLog[Head(queue)]
         IN DispatchEach(
                PlaceLimitOrder(s, [symbol |-> t.symbol, offset |-> t.offset,
                                    side |-> t.side, volume |-> t.volume,
                                    price |-> SidePrice(t.side, range),
                                    receiver |-> Head(queue)], Head(retvals)),
                Tail(queue), range, Tail(retvals))

\* The RspQryDepthMarketData handler.
RspQryDepthMarketData(s, depthMarketData, rspInfo, retvals) ==
    LET bounds == PriceBounds([upper |-> depthMarketData.UpperLimitPrice,
                               lower |-> depthMarketData.LowerLimitPrice],
                              [upper |-> depthMarketData.BandingUpperPrice,
                               lower |-> depthMarketData.BandingLowerPrice])
        instrumentId == depthMarketData.InstrumentID
        cached == [s EXCEPT !.priceLimit =
                      IF bounds.isLimitPrice
                      THEN MapSet(@, instrumentId,
                                  [upper |-> depthMarketData.UpperLimitPrice,
                                   lower |-> depthMarketData.LowerLimitPrice])
                      ELSE @]
    IN IF IsErrorResp(rspInfo)
       THEN ClearAllMarketOrders(
                [s EXCEPT !.calls =
                    Append(@, OnError(rspInfo, "query-depth-market-data-error"))])
       ELSE IF ~MapHas(cached.marketOrdersQueue, instrumentId)
            THEN cached
            ELSE [DispatchEach(cached,
                               cached.queueHeap[cached.marketOrdersQueue[instrumentId]],
                               bounds, retvals)
                  EXCEPT !.marketOrdersQueue = MapDelete(@, instrumentId)]

\* The request closure of cancelOrder called once and its .then branch.
CancelAttempt(s, c, retval) ==
    LET requestId == s.gwRequestId + 1
        accepted == RetryStep(retval) = "done"
        resolved == IF accepted THEN requestId ELSE retval
        taken == IF accepted
                 THEN [s EXCEPT !.gwRequestId = requestId,
                                !.gwReqs = @ \cup {[kind |-> "action", requestId |-> requestId,
                                                    receiver |-> c.receiver]}]
                 ELSE s
    IN CASE RetryStep(retval) = "sleep" -> [s EXCEPT !.reqSleeping = Append(@, c)]
         [] RetryStep(retval) # "sleep" /\ RequestFailed(resolved) ->
              Result(taken, c.receiver, "onCancelOrderError", "Request Error")
         [] OTHER ->
              Result([taken EXCEPT !.cancelOrders = MapSet(@, resolved, c.receiver)],
                     c.receiver, "onCancelOrderSent", <<>>)

\* cancelOrder(order, receiver): order is the OrderData the caller holds, of
\* which the id and cancelTime are read; `if (order.cancelTime)` is false for
\* undefined and for 0.
CancelOrder(s, order, receiver, retval) ==
    IF ~MapHas(orders, order.id)
    THEN Result(s, receiver, "onCancelOrderError", "Order Not Found")
    ELSE IF order.cancelTime # <<>> /\ order.cancelTime[1] # 0
         THEN Result(s, receiver, "onCancelOrderError", "Already Canceled")
         ELSE CancelAttempt(s, [kind |-> "cancel", receiver |-> receiver, queue |-> 0,
                                instrumentId |-> orders[order.id].InstrumentID],
                            retval)

\* The RspOrderInsert / RspOrderAction handler on a last response for
\* requestId: an error payload goes to the correlated receiver, once.
RspOrderError(s, kind, requestId, rspInfo) ==
    LET map == IF kind = "insert" THEN s.placeOrders ELSE s.cancelOrders
        fn == IF kind = "insert" THEN "onPlaceOrderError" ELSE "onCancelOrderError"
        dropped == IF kind = "insert"
                   THEN [s EXCEPT !.placeOrders = MapDelete(@, requestId)]
                   ELSE [s EXCEPT !.cancelOrders = MapDelete(@, requestId)]
    IN IF rspInfo # <<>> /\ requestId # 0 /\ MapHas(map, requestId)
       THEN Result(dropped, map[requestId], fn,
                   <<rspInfo[1].ErrorID, ": ", rspInfo[1].ErrorMsg>>)
       ELSE s

\* The price a strategy names on a limit order.
LimitPrices == {100}

\* The order ids a caller may hold: those of the engine and one it never had.
UnknownOrderId == <<"DCE", "T", 0>>

\* The CancelTime the gateway reports on a canceled order ("hh:mm:ss").
CancelTimes == {<<0, 0, 0>>, <<9, 30, 0>>}

\* Whether a placeOrder call takes the depth-query path of _placeMarketOrder.
TakesDepthPath(symbol, volume, flag, tick) ==
    /\ volume > 0 /\ flag = "market"
    /\ MapHas(instruments, parseSymbol(symbol)[1])
    /\ parseSymbol(symbol)[2] = instruments[parseSymbol(symbol)[1]].ExchangeID
    /\ ~MapHas(priceLimit, parseSymbol(symbol)[1])
    /\ ~(tick # <<>> /\ tick[1].tradingDay = tradingDay)

\* What a placeOrder or cancelOrder call of the trader leaves alone.
CallFrame ==
    /\ UNCHANGED <<instruments, positions, orders, trades, receivers,
                   positionDetailsChanged, observe, stale>>
    /\ UNCHANGED <<mktVars, rateVars, loginVars>>

\* What the retries and the gateway's answers leave alone.
RequestFrame == CallFrame /\ UNCHANGED <<brkVars, barVars, retryVars, detVars, dayVars, fanVars>>

\* placeOrder(symbol, offset, side, volume, price, flag, receiver): the n-th
\* call of the behaviour, its receiver named n.
PlaceOrderCall(symbol, offset, side, volume, price, flag, tick, retval) ==
    LET n == Len(callLog) + 1
        t == [symbol |-> symbol, offset |-> offset, side |-> side, volume |-> volume,
              price |-> price, receiver |-> n]
    IN /\ n <= MaxPlaceCalls
       /\ orderRef < MaxOrderRef
       /\ retval = 0 => connected
       /\ callLog' = Append(callLog, [op |-> "placeOrder", flag |-> flag, symbol |-> symbol,
                                  offset |-> offset, side |-> side, volume |-> volume,
                                  price |-> price, order |-> <<>>,
                                  depth |-> TakesDepthPath(symbol, volume, flag, tick)])
       /\ lastStep' = [op |-> "placeOrder", id |-> n, arg |-> <<>>]
       /\ Commit(IF volume <= 0
                 THEN Result(Cur, n, "onPlaceOrderError", "Invalid Volume")
                 ELSE IF flag = "limit"
                      THEN PlaceLimitOrder(Cur, t, retval)
                      ELSE PlaceMarketOrder(Cur, t, tick, retval))
       /\ CallFrame

\* cancelOrder(order, receiver): the n-th call, its receiver named n.
CancelOrderCall(order, retval) ==
    LET n == Len(callLog) + 1
    IN /\ n <= MaxPlaceCalls
       /\ retval = 0 => connected
       /\ callLog' = Append(callLog, [op |-> "cancelOrder", flag |-> "none",
                                  symbol |-> <<"", "">>, offset |-> "none",
                                  side |-> "none", volume |-> 0, price |-> 0,
                                  order |-> <<order>>,
                                  depth |-> FALSE])
       /\ lastStep' = [op |-> "cancelOrder", id |-> n, arg |-> <<>>]
       /\ Commit(CancelOrder(Cur, order, n, retval))
       /\ CallFrame

\* A suspended placement wakes and _withRetry calls its request again.
PlaceRetry(retval) ==
    /\ sleeping # <<>>
    /\ orderRef < MaxOrderRef
    /\ retval = 0 => connected
    /\ lastStep' = [op |-> "retryPlace", id |-> Head(sleeping).receiver, arg |-> <<>>]
    /\ Commit(LimitAttempt([Cur EXCEPT !.sleeping = Tail(@)], Head(sleeping), retval))
    /\ UNCHANGED callLog
    /\ RequestFrame

\* A suspended depth or cancel request wakes and is called again.
RequestRetry(retval) ==
    LET c == Head(reqSleeping)
        rest == [Cur EXCEPT !.reqSleeping = Tail(@)]
    IN /\ reqSleeping # <<>>
       /\ retval = 0 => connected
       /\ lastStep' = [op |-> "retryRequest", id |-> c.receiver, arg |-> <<>>]
       /\ Commit(IF c.kind = "depth" THEN DepthAttempt(rest, c, retval)
                 ELSE CancelAttempt(rest, c, retval))
       /\ UNCHANGED callLog
       /\ RequestFrame

\* The gateway answers a depth query it accepted; the handler runs.
GwRspDepth(req, depthMarketData, rspInfo, retvals) ==
    /\ connected
    /\ req \in gwReqs /\ req.kind = "depth"
    /\ Len(retvals) =
         IF ~IsErrorResp(rspInfo) /\ MapHas(marketOrdersQueue, depthMarketData.InstrumentID)
         THEN Len(queueHeap[marketOrdersQueue[depthMarketData.InstrumentID]])
         ELSE 0
    /\ orderRef + Len(retvals) <= MaxOrderRef
    /\ lastStep' = [op |-> "RspQryDepthMarketData", id |-> req.requestId,
                    arg |-> <<rspInfo, depthMarketData>>]
    /\ Commit(RspQryDepthMarketData([Cur EXCEPT !.gwReqs = @ \ {req}], depthMarketData,
                                    rspInfo, retvals))
    /\ UNCHANGED callLog
    /\ RequestFrame

\* The gateway answers an order insert or an order action it accepted (also
\* one it accepted before the connection was lost); the handler runs.
GwRspOrder(req, rspInfo) ==
    /\ req \in gwReqs /\ req.kind \in {"insert", "action"}
    /\ lastStep' = [op |-> IF req.kind = "insert" THEN "RspOrderInsert"
                           ELSE "RspOrderAction",
                    id |-> req.requestId, arg |-> <<>>]
    /\ Commit(RspOrderError([Cur EXCEPT !.gwReqs = @ \ {req}], req.kind, req.requestId,
                            rspInfo))
    /\ UNCHANGED callLog
    /\ RequestFrame

\* ------------------------------------------------- Broker, the lifecycles

\* Starts of the Broker and login responses of the market front in one
\* behaviour.
MaxStarts == 2
MaxMarketLogins == 2

\* A call the Broker makes: on a strategy, a risk manager, a result receiver,
\* the trader or the market; arg holds the string arguments.
BrokerCalled(to, fn, arg) == [to |-> to, fn |-> fn, arg |-> arg]

\* Market.open(lifecycle): a second open of an open market does nothing.
MarketOpen ==
    /\ marketApi' = TRUE
    /\ marketFired' = IF marketApi THEN marketFired ELSE FALSE
    /\ marketLink' = IF marketApi THEN marketLink ELSE "down"

\* traderLifecycle.onOpen of the Broker: this.market.open(this.marketLifecycle)
TraderLifecycleOnOpen ==
    /\ MarketOpen
    /\ brokerLog' = Append(brokerLog, BrokerCalled("market", "open", <<>>))
    /\ UNCHANGED <<strategies, placeOrderRiskManagers, cancelOrderRiskManagers,
                   traderLifecycle, marketLogins, starts, brokerCall>>

\* lifecycle.onOpen() of the Trader: the listener the trader was opened with.
LifecycleOnOpen(open) ==
    IF open /\ traderLifecycle = "broker" THEN TraderLifecycleOnOpen
    ELSE UNCHANGED brkVars

\* ------------------------------------------------- login pipeline, the steps

\* Trader.open(lifecycle)
Open ==
    /\ traderApi' = TRUE
    /\ fired' = IF traderApi THEN fired ELSE FALSE
    /\ lastRsp' = <<>>
    /\ Deliver(<<>>)
    /\ UNCHANGED <<tradingDay, frontId, sessionId, loginSleeping, connected, inflight,
                   reconnects, firstSubmitted, answeredOk, orderOk, opens>>
    /\ UNCHANGED <<ordState, mktVars, rateVars, reqVars, brkVars, barVars, retryVars, detVars, dayVars, fanVars>>

\* The FrontConnected handler.
FrontConnected(retval) ==
    /\ traderApi /\ ~connected /\ ~hung
    /\ connected' = TRUE
    /\ UNCHANGED <<traderApi, fired, tradingDay, frontId, sessionId, reconnects,
                   answeredOk, opens>>
    /\ LoginAttempt("Authenticate", retval, loginSleeping, inflight, TRUE)
    /\ lastRsp' = <<>>
    /\ Deliver(<<>>)
    /\ UNCHANGED <<ordState, mktVars, rateVars, reqVars, brkVars, barVars, retryVars, detVars, dayVars, fanVars>>

\* The FrontDisconnected handler; the gateway drops the queries it had not
\* answered.
FrontDisconnected ==
    /\ traderApi /\ connected /\ ~hung
    /\ reconnects < MaxReconnects
    /\ reconnects' = reconnects + 1
    /\ connected' = FALSE
    /\ inflight' = <<>>
    /\ Commit([ClearAllMarketOrders([Cur EXCEPT !.gwReqs = {req \in @ : req.kind # "depth"}])
               EXCEPT !.placeOrders = ClearMap(@), !.cancelOrders = ClearMap(@)])
    /\ stale' = stale \cup DOMAIN placeOrders \cup DOMAIN cancelOrders
    /\ lastStep' = [op |-> "FrontDisconnected", id |-> 0, arg |-> <<>>]
    /\ lastRsp' = <<>>
    /\ UNCHANGED <<traderApi, fired, tradingDay, frontId, sessionId, loginSleeping,
                   firstSubmitted, answeredOk, orderOk, opens>>
    /\ UNCHANGED <<instruments, positions, orders, trades, receivers,
                   positionDetailsChanged, observe, callLog>>
    /\ UNCHANGED <<mktVars, rateVars, brkVars, barVars, retryVars, detVars, dayVars, fanVars>>

\* A suspended pipeline request wakes and _withRetry calls the request again.
LoginRetry(retval) ==
    /\ loginSleeping # <<>> /\ ~hung
    /\ UNCHANGED <<traderApi, fired, tradingDay, frontId, sessionId, connected,
                   reconnects, answeredOk, opens>>
    /\ LoginAttempt(Head(loginSleeping), retval, Tail(loginSleeping), inflight, connected)
    /\ lastRsp' = <<>>
    /\ Deliver(<<>>)
    /\ UNCHANGED <<ordState, mktVars, rateVars, reqVars, brkVars, barVars, retryVars, detVars, dayVars, fanVars>>

\* The handler of the response to pipeline request req: the classifier first,
\* then the handler's work and the next request (whose return value is retval).
LoginRsp(req, record, rspInfo, isLast, day, retval, flying) ==
    LET e == LoginEffect(req, record, isLast, day)
        margin == ProcessRatesQueue(marginRatesQueue, marginRates, <<>>)
        comm == ProcessRatesQueue(commRatesQueue, commRates, <<>>)
    IN /\ lastRsp' = <<[req |-> req, rspInfo |-> rspInfo, isLast |-> isLast, day |-> day]>>
       /\ IF IsErrorResp(rspInfo)
          THEN /\ Deliver(<<OnError(rspInfo, ErrorKind(req))>>)
               /\ inflight' = flying
               /\ UNCHANGED <<orders, trades, instruments, positions, frontId, sessionId,
                              orderRef, tradingDay, orderStatistics, fired, opens,
                              answeredOk, loginSleeping, firstSubmitted, orderOk>>
               /\ UNCHANGED rateVars
          ELSE /\ orders' = e.orders
               /\ trades' = e.trades
               /\ instruments' = e.instruments
               /\ positions' = e.positions
               /\ frontId' = e.frontId
               /\ sessionId' = e.sessionId
               /\ orderRef' = e.orderRef
               /\ tradingDay' = e.tradingDay
               /\ orderStatistics' = e.orderStatistics
               /\ fired' = e.fired
               /\ opens' = IF e.open THEN opens + 1 ELSE opens
               /\ answeredOk' = IF isLast THEN answeredOk \cup {req} ELSE answeredOk
               /\ IF e.next = <<>>
                  THEN /\ inflight' = flying
                       /\ UNCHANGED <<loginSleeping, firstSubmitted, orderOk>>
                  ELSE LoginAttempt(e.next[1], retval, loginSleeping, flying, connected)
               /\ IF e.last
                  THEN /\ marginRates' = e.marginRates
                       /\ commRates' = e.commRates
                       /\ marginRatesQueue' = margin.queue
                       /\ commRatesQueue' = IF margin.hung THEN commRatesQueue ELSE comm.queue
                       /\ hung' = (margin.hung \/ comm.hung)
                       /\ rateLog' = [rateLog EXCEPT
                                         !["margin"] = @ \o margin.answered,
                                         !["commission"] =
                                             IF margin.hung THEN @ ELSE @ \o comm.answered]
                       /\ Deliver((IF e.open
                                   THEN <<[to |-> "lifecycle", fn |-> "onOpen", arg |-> <<>>]>>
                                   ELSE <<>>)
                                  \o RateCalls("margin", margin.answered)
                                  \o (IF margin.hung THEN <<>>
                                      ELSE RateCalls("commission", comm.answered)))
                       /\ UNCHANGED <<rateSleeping, rateInflight, rateSent, rateAsked,
                                      rateFirst>>
                  ELSE /\ marginRates' = e.marginRates
                       /\ commRates' = e.commRates
                       /\ Deliver(<<>>)
                       /\ UNCHANGED <<marginRatesQueue, commRatesQueue, rateSleeping, hung,
                                      rateInflight, rateSent, rateAsked, rateLog, rateFirst>>

\* inflight without its i-th request.
Answered(i) == SubSeq(inflight, 1, i - 1) \o SubSeq(inflight, i + 1, Len(inflight))

\* The gateway answers the i-th request it holds: an error, a record that is
\* not the last (queries only) or the last response; the handler runs.
GwLoginRsp(i, record, rspInfo, isLast, day, retval) ==
    LET req == inflight[i].req
        more == [inflight EXCEPT ![i].sent = @ + 1]
    IN /\ traderApi /\ connected /\ ~hung
       /\ i \in 1..Len(inflight)
       /\ record # <<>> => record[1] \in LoginRecords(req)
       /\ req = "UserLogin" /\ rspInfo = <<>> => record # <<>>
       /\ rspInfo # <<>> => (record = <<>> /\ isLast)
       /\ ~isLast => (req \in Queries /\ record # <<>> /\ inflight[i].sent < MaxRecords)
       /\ LoginRsp(req, record, rspInfo, isLast, day, retval,
                   IF isLast THEN Answered(i) ELSE more)
       /\ UNCHANGED <<traderApi, connected, reconnects>>
       /\ UNCHANGED <<placeOrders, receivers, sleeping, gwRequestId, gw,
                      positionDetailsChanged, observe>>
       /\ priceLimit' = IF /\ req = "UserLogin" /\ ~IsErrorResp(rspInfo)
                           /\ DayChanged(tradingDay, day)
                        THEN ClearMap(priceLimit) ELSE priceLimit
       /\ UNCHANGED <<cancelOrders, marketOrdersQueue, queueHeap, reqSleeping, gwReqs,
                      callLog, outcomes, stale, lastStep>>
       /\ UNCHANGED <<mktVars, barVars, retryVars, detVars, dayVars, fanVars>>
       /\ LifecycleOnOpen(opens' # opens)

\* The trader before open(): nothing connected, nothing requested.
InitLogin ==
    /\ traderApi = FALSE
    /\ fired = FALSE
    /\ tradingDay = 0
    /\ frontId = 0
    /\ sessionId = 0
    /\ loginSleeping = <<>>
    /\ connected = FALSE
    /\ inflight = <<>>
    /\ reconnects = 0
    /\ firstSubmitted = <<>>
    /\ answeredOk = {}
    /\ orderOk = TRUE
    /\ opens = 0
    /\ lastRsp = <<>>

\* The trader after a login pipeline that ran to its end.
InitLoggedIn ==
    /\ traderApi = TRUE
    /\ fired = TRUE
    /\ tradingDay = 1
    /\ frontId = 1
    /\ sessionId = 1
    /\ loginSleeping = <<>>
    /\ connected = TRUE
    /\ inflight = <<>>
    /\ reconnects = 0
    /\ firstSubmitted = Pipeline
    /\ answeredOk = {Pipeline[i] : i \in 1..Len(Pipeline)}
    /\ orderOk = TRUE
    /\ opens = 1
    /\ lastRsp = <<>>

\* ---------------------------------------------------------- market router

\* The instruments the strategies and the recorder name.
MarketSymbols == {MkSymbol("X", "DCE"), MkSymbol("Y", "DCE")}

InstrumentIds == {parseSymbol(symbol)[1] : symbol \in MarketSymbols}

TickReceivers == {"r1", "r2"}

\* The symbol lists passed to subscribe / unsubscribe and returned by
\* recorderSymbols.
SymbolLists ==
    {<<MkSymbol("X", "DCE")>>, <<MkSymbol("Y", "DCE")>>,
     <<MkSymbol("X", "DCE"), MkSymbol("Y", "DCE")>>}

\* receivers.includes(receiver)
Includes(rs, receiver) == \E i \in 1..Len(rs) : rs[i] = receiver

IndexOfFirst(rs, receiver) == IF rs = <<>> THEN 0 ELSE 1

\* receivers.indexOf(receiver), 0 for -1
IndexOf(rs, receiver) ==
    IF Includes(rs, receiver)
    THEN CHOOSE i \in 1..Len(rs) :
            rs[i] = receiver /\ \A j \in 1..(i - 1) : rs[j] # receiver
    ELSE 0

\* receivers.splice(index, 1)
Splice(rs, index) == SubSeq(rs, 1, index - 1) \o SubSeq(rs, index + 1, Len(rs))

\* The symbols.forEach of subscribe, on acc = [subscribers, symbols,
\* instrumentIds].
RECURSIVE SubscribeEach(_, _, _)
SubscribeEach(syms, receiver, acc) ==
    IF syms = <<>> THEN acc
    ELSE LET symbol == Head(syms)
             instrumentId == parseSymbol(symbol)[1]
             created == [acc EXCEPT !.subscribers = MapSet(@, instrumentId, <<receiver>>)]
             next ==
                 IF MapHas(acc.subscribers, instrumentId)
                 THEN IF Includes(acc.subscribers[instrumentId], receiver)
                      THEN acc
                      ELSE [acc EXCEPT !.subscribers[instrumentId] = Append(@, receiver)]
                 ELSE IF instrumentId \in recordings
                      THEN created
                      ELSE [created EXCEPT
                               !.symbols = MapSet(@, instrumentId, symbol),
                               !.instrumentIds = @ \cup {instrumentId}]
         IN SubscribeEach(Tail(syms), receiver, next)

\* The symbols.forEach of unsubscribe.
RECURSIVE UnsubscribeEach(_, _, _)
UnsubscribeEach(syms, receiver, acc) ==
    IF syms = <<>> THEN acc
    ELSE LET symbol == Head(syms)
             instrumentId == parseSymbol(symbol)[1]
             rs == acc.subscribers[instrumentId]
             index == IndexOf(rs, receiver)
             spliced == IF Len(rs) > 0 THEN Splice(rs, index) ELSE rs
             removed == [acc EXCEPT !.subscribers = MapDelete(@, instrumentId)]
             next ==
                 IF ~MapHas(acc.subscribers, instrumentId) THEN acc
                 ELSE IF Len(rs) > 0 /\ index = 0 THEN acc
                 ELSE IF Len(spliced) # 0
                      THEN [acc EXCEPT !.subscribers[instrumentId] = spliced]
                      ELSE IF instrumentId \in recordings
                           THEN removed
                           ELSE [removed EXCEPT
                                    !.symbols = MapDelete(@, instrumentId),
                                    !.instrumentIds = @ \cup {instrumentId}]
         IN UnsubscribeEach(Tail(syms), receiver, next)

\* The symbols.forEach of startRecorder, on acc = [recordings, symbols,
\* instrumentIds].
RECURSIVE StartRecorderEach(_, _)
StartRecorderEach(syms, acc) ==
    IF syms = <<>> THEN acc
    ELSE LET symbol == Head(syms)
             instrumentId == parseSymbol(symbol)[1]
             added == [acc EXCEPT !.recordings = @ \cup {instrumentId}]
             next ==
                 IF instrumentId \in acc.recordings THEN acc
                 ELSE IF MapHas(subscribers, instrumentId) THEN added
                 ELSE [added EXCEPT
                          !.symbols = MapSet(@, instrumentId, symbol),
                          !.instrumentIds = @ \cup {instrumentId}]
         IN StartRecorderEach(Tail(syms), next)

\* The gateway takes subscribeMarketData / unsubscribeMarketData of ids.
WireSend(kind, ids) ==
    /\ wire' = IF kind = "subscribe" THEN wire \cup ids ELSE wire \ ids
    /\ wireSubs' = [i \in InstrumentIds |->
                      IF kind = "subscribe" /\ i \in ids THEN wireSubs[i] + 1
                      ELSE wireSubs[i]]
    /\ wireUnsubs' = [i \in InstrumentIds |->
                        IF kind = "unsubscribe" /\ i \in ids THEN wireUnsubs[i] + 1
                        ELSE wireUnsubs[i]]

\* One pass of _withRetry over a market request and what follows from the
\* request's return value; rest is the suspended requests it leaves behind.
MdAttempt(kind, ids, retval, rest) ==
    CASE RetryStep(retval) = "done" ->
           /\ WireSend(kind, ids)
           /\ mdSleeping' = rest
           /\ UNCHANGED mdFailed
      [] RetryStep(retval) = "sleep" ->
           /\ mdSleeping' = Append(rest, [kind |-> kind, ids |-> ids])
           /\ UNCHANGED <<wire, wireSubs, wireUnsubs, mdFailed>>
      [] OTHER ->
           /\ mdSleeping' = rest
           /\ mdFailed' = TRUE
           /\ UNCHANGED <<wire, wireSubs, wireUnsubs>>

\* if (instrumentIds.size > 0) this._withRetry(...)
MdRequest(kind, ids, retval) ==
    IF ids = {}
    THEN UNCHANGED <<mdSleeping, mdFailed, wire, wireSubs, wireUnsubs>>
    ELSE MdAttempt(kind, ids, retval, mdSleeping)

\* The (symbol, receiver) pairs a call names.
PairsOf(syms, receiver) == {<<syms[i], receiver>> : i \in 1..Len(syms)}

\* Market.subscribe(symbols, receiver)
Subscribe(syms, receiver, retval) ==
    LET acc == SubscribeEach(syms, receiver,
                             [subscribers |-> subscribers, symbols |-> symbols,
                              instrumentIds |-> {}])
    IN /\ mdCalls < MaxMarketCalls
       /\ mdCalls' = mdCalls + 1
       /\ subscribers' = acc.subscribers
       /\ symbols' = acc.symbols
       /\ MdRequest("subscribe", acc.instrumentIds, retval)
       /\ balance' = [pr \in DOMAIN balance |->
                        IF pr \in PairsOf(syms, receiver) THEN balance[pr] + 1
                        ELSE balance[pr]]
       /\ UNCHANGED <<recordings, recorder, ordered>>
       /\ UNCHANGED <<ordVars, rateVars, loginVars, reqVars, brkVars, barVars, retryVars, detVars, dayVars>>

\* Market.unsubscribe(symbols, receiver)
Unsubscribe(syms, receiver, retval) ==
    LET acc == UnsubscribeEach(syms, receiver,
                               [subscribers |-> subscribers, symbols |-> symbols,
                                instrumentIds |-> {}])
    IN /\ mdCalls < MaxMarketCalls
       /\ mdCalls' = mdCalls + 1
       /\ subscribers' = acc.subscribers
       /\ symbols' = acc.symbols
       /\ MdRequest("unsubscribe", acc.instrumentIds, retval)
       /\ balance' = [pr \in DOMAIN balance |->
                        IF pr \in PairsOf(syms, receiver) THEN balance[pr] - 1
                        ELSE balance[pr]]
       /\ ordered' = (ordered /\ \A pr \in PairsOf(syms, receiver) : balance[pr] > 0)
       /\ UNCHANGED <<recordings, recorder>>
       /\ UNCHANGED <<ordVars, rateVars, loginVars, reqVars, brkVars, barVars, retryVars, detVars, dayVars>>

\* Market.startRecorder(instrument); syms is recorderSymbols(instrument).
StartRecorder(syms, retval) ==
    LET acc == StartRecorderEach(syms, [recordings |-> recordings, symbols |-> symbols,
                                        instrumentIds |-> {}])
    IN /\ mdCalls < MaxMarketCalls
       /\ mdCalls' = mdCalls + 1
       /\ IF ~recorder
          THEN UNCHANGED <<recordings, symbols, mdSleeping, mdFailed, wire, wireSubs,
                           wireUnsubs>>
          ELSE /\ recordings' = acc.recordings
               /\ symbols' = acc.symbols
               /\ MdRequest("subscribe", acc.instrumentIds, retval)
       /\ UNCHANGED <<subscribers, recorder, balance, ordered>>
       /\ UNCHANGED <<ordVars, rateVars, loginVars, reqVars, brkVars, barVars, retryVars, detVars, dayVars, fanVars>>

\* Market.stopRecorder()
StopRecorder(retval) ==
    LET ids == {i \in recordings : ~MapHas(subscribers, i)}
    IN /\ mdCalls < MaxMarketCalls
       /\ mdCalls' = mdCalls + 1
       /\ IF recordings = {}
          THEN UNCHANGED <<recordings, symbols, mdSleeping, mdFailed, wire, wireSubs,
                           wireUnsubs>>
          ELSE /\ symbols' = [i \in (DOMAIN symbols) \ ids |-> symbols[i]]
               /\ recordings' = {}
               /\ MdRequest("unsubscribe", ids, retval)
       /\ UNCHANGED <<subscribers, recorder, balance, ordered>>
       /\ UNCHANGED <<ordVars, rateVars, loginVars, reqVars, brkVars, barVars, retryVars, detVars, dayVars, fanVars>>

\* A suspended market request wakes (timers of equal delay fire in the order
\* they were set) and _withRetry calls the request again.
MdRetry(retval) ==
    /\ mdSleeping # <<>>
    /\ MdAttempt(Head(mdSleeping).kind, Head(mdSleeping).ids, retval, Tail(mdSleeping))
    /\ UNCHANGED <<subscribers, recordings, symbols, recorder, mdCalls, balance, ordered>>
    /\ UNCHANGED <<ordVars, rateVars, loginVars, reqVars, brkVars, barVars, retryVars, detVars, dayVars, fanVars>>

\* The market router after construction, logged in, nothing subscribed.
InitMarket ==
    /\ subscribers = EmptyMap
    /\ recordings = {}
    /\ symbols = EmptyMap
    /\ mdSleeping = <<>>
    /\ mdFailed = FALSE
    /\ mdCalls = 0
    /\ wire = {}
    /\ wireSubs = [i \in InstrumentIds |-> 0]
    /\ wireUnsubs = [i \in InstrumentIds |-> 0]
    /\ balance = [pr \in MarketSymbols \X TickReceivers |-> 0]
    /\ ordered = TRUE

\* ------------------------------------------------ gateway (the environment)

LiveStatuses == {"Unknown", "NoTradeQueueing", "PartTradedQueueing"}

\* The notifications the gateway may send for its order g: the next
\* (OrderStatus, OrderSubmitStatus) pair and the volume m matched by then.
\* A pair is first sent as Unknown/InsertSubmitted, may be repeated, and
\* follows the exchange's life of the order; a terminal status stays.
AllowedRtn(g, st, sub, m) ==
    \/ /\ g.OrderStatus = "None"
       /\ st = "Unknown" /\ sub = "InsertSubmitted" /\ m = 0
    \/ /\ g.OrderStatus # "None"
       /\ st = g.OrderStatus /\ sub = g.OrderSubmitStatus /\ m = g.matched
    \/ /\ g.OrderStatus = "Unknown" /\ g.OrderSubmitStatus = "InsertSubmitted"
       /\ st = "Unknown" /\ sub = "Accepted" /\ m = g.matched
    \/ /\ g.OrderStatus = "Unknown"
       /\ st = "NoTradeQueueing" /\ sub = "Accepted" /\ m = g.matched
    \/ /\ g.OrderStatus \in LiveStatuses
       /\ st = "PartTradedQueueing" /\ sub = "Accepted"
       /\ m > g.matched /\ m < g.VolumeTotalOriginal
    \/ /\ g.OrderStatus \in LiveStatuses
       /\ st = "AllTraded" /\ sub = "Accepted" /\ m = g.VolumeTotalOriginal
    \/ /\ g.OrderStatus \in LiveStatuses
       /\ st = "Canceled" /\ sub = "Accepted" /\ m = g.matched
    \/ /\ g.OrderStatus = "Unknown"
       /\ st = "Canceled" /\ sub = "InsertRejected" /\ m = g.matched

OrderStatuses == {"Unknown", "NoTradeQueueing", "PartTradedQueueing", "AllTraded", "Canceled"}

SubmitStatuses == {"InsertSubmitted", "Accepted", "InsertRejected"}

\* The OrderField the gateway sends for its order o.
GwOrderField(o, st, sub) ==
    [ExchangeID |-> gw[o].ExchangeID, TraderID |-> "T", OrderLocalID |-> o,
     InstrumentID |-> gw[o].InstrumentID, Direction |-> gw[o].Direction,
     CombOffsetFlag |-> gw[o].CombOffsetFlag,
     VolumeTotalOriginal |-> gw[o].VolumeTotalOriginal,
     OrderStatus |-> st, OrderSubmitStatus |-> sub]

\* The gateway notifies an order status; the RtnOrder handler runs.
GwRtnOrder(o, st, sub, m) ==
    /\ AllowedRtn(gw[o], st, sub, m)
    /\ gw' = [gw EXCEPT ![o].OrderStatus = st, ![o].OrderSubmitStatus = sub,
                        ![o].matched = m]
    /\ RtnOrder(GwOrderField(o, st, sub))
    /\ UNCHANGED <<instruments, trades, placeOrders, orderRef, receivers, sleeping,
                   gwRequestId, positionDetailsChanged, observe>>

\* The gateway notifies a trade of volume v of its order o (a part of what
\* the exchange matched and has not yet reported); the RtnTrade handler runs.
GwRtnTrade(o, v) ==
    /\ v >= 1 /\ gw[o].sent + v <= gw[o].matched
    /\ gw' = [gw EXCEPT ![o].sent = @ + v]
    /\ RtnTrade([ExchangeID |-> gw[o].ExchangeID, TraderID |-> "T", OrderLocalID |-> o,
                 TradeID |-> gw[o].sent + 1, Volume |-> v])
    /\ UNCHANGED <<instruments, orders, orderStatistics, placeOrders, orderRef, receivers,
                   sleeping, gwRequestId, observe>>

\* The gateway notifies the status of its order o with the fields it echoes
\* from the request and the session (time: the CancelTime, <<>> for "");
\* the RtnOrder handler runs.
GwRtnOrderEcho(o, st, sub, time) ==
    /\ connected
    /\ AllowedRtn(gw[o], st, sub, 0)
    /\ (st = "Canceled") <=> (time # <<>>)
    /\ gw' = [gw EXCEPT ![o].OrderStatus = st, ![o].OrderSubmitStatus = sub]
    /\ RtnOrder([ExchangeID |-> gw[o].ExchangeID, TraderID |-> "T", OrderLocalID |-> o,
                 InstrumentID |-> gw[o].InstrumentID, Direction |-> gw[o].Direction,
                 CombOffsetFlag |-> gw[o].CombOffsetFlag,
                 VolumeTotalOriginal |-> gw[o].VolumeTotalOriginal,
                 OrderStatus |-> st, OrderSubmitStatus |-> sub,
                 FrontID |-> gw[o].FrontID, SessionID |-> gw[o].SessionID,
                 OrderRef |-> gw[o].OrderRef, LimitPrice |-> gw[o].LimitPrice,
                 CancelTime |-> time])
    /\ lastStep' = [op |-> "RtnOrder", id |-> o, arg |-> <<>>]
    /\ UNCHANGED <<instruments, trades, placeOrders, orderRef, receivers, sleeping,
                   gwRequestId, positionDetailsChanged, observe>>
    /\ UNCHANGED <<cancelOrders, marketOrdersQueue, queueHeap, priceLimit, reqSleeping,
                   gwReqs, callLog, outcomes, stale>>
    /\ UNCHANGED <<mktVars, rateVars, loginVars, brkVars, barVars, retryVars, detVars, dayVars, fanVars>>

\* ------------------------------------------------- Broker, the operations

\* The strategies and risk managers a program may register.
Strategies == {"s1", "s2"}
RiskManagers == {"m1", "m2"}

\* What a risk manager returns: true, false, or a string naming the reason;
\* `boolean` is set for a boolean result and `string` for a string.
RiskResults ==
    {[boolean |-> <<b>>, string |-> <<>>] : b \in BOOLEAN} \cup
    {[boolean |-> <<>>, string |-> <<reason>>] : reason \in {"", "too large"}}

RiskAllowsStrings(result) == result.boolean # <<FALSE>>

\* typeof result === "boolean" with result true: the manager lets the call pass.
RiskAllows(result) == result.boolean = <<TRUE>>

\* for (const riskManager of managers): the managers consulted (fn is the
\* method called on each), whether all let the call pass, and the reason the
\* first denial gave (none for false).
RECURSIVE RiskChain(_, _, _)
RiskChain(managers, answers, fn) ==
    IF managers = <<>> THEN [calls |-> <<>>, allowed |-> TRUE, reason |-> <<>>]
    ELSE LET consulted == BrokerCalled(Head(managers), fn, <<>>)
             result == answers[Head(managers)]
             rest == RiskChain(Tail(managers), answers, fn)
         IN IF RiskAllows(result)
            THEN [rest EXCEPT !.calls = <<consulted>> \o @]
            ELSE [calls |-> <<consulted>>, allowed |-> FALSE, reason |-> result.string]

\* strategy.onRisk(type, reason?) and then receiver.<fn>("Risk Rejected")
RiskRejected(strategy, type, reason, fn) ==
    <<BrokerCalled(strategy, "onRisk", <<type>> \o reason),
      BrokerCalled("receiver", fn, <<"Risk Rejected">>)>>

\* The risk managers of a chain.
Registered(managers) == {managers[i] : i \in 1..Len(managers)}

\* Broker.placeOrder / cancelOrder calls so far.
BrokerCalls ==
    Cardinality({i \in 1..Len(brokerLog) :
                    /\ brokerLog[i].fn \in {"placeOrder", "cancelOrder", "onRisk"}
                    /\ brokerLog[i].to \notin RiskManagers})

\* What the order calls of the Broker leave alone of the Broker.
BrokerFrame ==
    UNCHANGED <<strategies, placeOrderRiskManagers, cancelOrderRiskManagers,
                traderLifecycle, marketApi, marketFired, marketLink, marketLogins, starts>>

\* Broker.addStrategy(strategy)
AddStrategy(strategy) ==
    /\ strategies' = IF Includes(strategies, strategy) THEN strategies
                     ELSE Append(strategies, strategy)
    /\ receivers' = IF Includes(strategies, strategy) \/ Includes(receivers, strategy)
                    THEN receivers ELSE Append(receivers, strategy)
    /\ UNCHANGED <<placeOrderRiskManagers, cancelOrderRiskManagers, traderLifecycle,
                   marketApi, marketFired, marketLink, marketLogins, starts, brokerCall,
                   brokerLog>>
    /\ UNCHANGED <<instruments, positions, orders, trades, orderStatistics, placeOrders,
                   orderRef, sleeping, gwRequestId, gw, positionDetailsChanged, calls,
                   observe>>
    /\ UNCHANGED <<mktVars, rateVars, loginVars, reqVars, barVars, retryVars, detVars, dayVars, fanVars>>

\* Broker.addPlaceOrderRiskManager(riskMgr)
AddPlaceOrderRiskManager(riskMgr) ==
    /\ placeOrderRiskManagers' =
         IF Includes(placeOrderRiskManagers, riskMgr) THEN placeOrderRiskManagers
         ELSE Append(placeOrderRiskManagers, riskMgr)
    /\ UNCHANGED <<strategies, cancelOrderRiskManagers, traderLifecycle, marketApi,
                   marketFired, marketLink, marketLogins, starts, brokerCall, brokerLog>>
    /\ UNCHANGED <<ordVars, mktVars, rateVars, loginVars, reqVars, barVars, retryVars, detVars, dayVars, fanVars>>

\* Broker.addCancelOrderRiskManager(riskMgr)
AddCancelOrderRiskManager(riskMgr) ==
    /\ cancelOrderRiskManagers' =
         IF Includes(cancelOrderRiskManagers, riskMgr) THEN cancelOrderRiskManagers
         ELSE Append(cancelOrderRiskManagers, riskMgr)
    /\ UNCHANGED <<strategies, placeOrderRiskManagers, traderLifecycle, marketApi,
                   marketFired, marketLink, marketLogins, starts, brokerCall, brokerLog>>
    /\ UNCHANGED <<ordVars, mktVars, rateVars, loginVars, reqVars, barVars, retryVars, detVars, dayVars, fanVars>>

\* Broker.placeOrder(strategy, symbol, offset, side, volume, price, flag,
\* receiver); answers is what each risk manager returns when consulted.
BrokerPlaceOrder(strategy, symbol, offset, side, volume, price, flag, answers, retval) ==
    LET chain == RiskChain(placeOrderRiskManagers, answers, "onPlaceOrder")
    IN /\ BrokerCalls < MaxPlaceCalls
       /\ brokerCall' = [kind |-> "place", strategy |-> strategy, answers |-> answers,
                         args |-> <<[symbol |-> symbol, offset |-> offset, side |-> side,
                                     volume |-> volume, price |-> price, flag |-> flag,
                                     order |-> <<>>]>>]
       /\ IF chain.allowed
          THEN /\ PlaceOrderCall(symbol, offset, side, volume, price, flag, <<>>, retval)
               /\ brokerLog' = brokerLog \o chain.calls
                                 \o <<BrokerCalled("trader", "placeOrder", <<>>)>>
               /\ UNCHANGED <<barVars, retryVars, detVars, dayVars, fanVars>>
          ELSE /\ brokerLog' = brokerLog \o chain.calls
                                 \o RiskRejected(strategy, "place-order-risk",
                                                 chain.reason, "onPlaceOrderError")
               /\ UNCHANGED <<ordVars, mktVars, rateVars, loginVars, reqVars, barVars, retryVars, detVars, dayVars, fanVars>>
       /\ BrokerFrame

\* Broker.cancelOrder(strategy, order, receiver)
BrokerCancelOrder(strategy, order, answers, retval) ==
    LET chain == RiskChain(cancelOrderRiskManagers, answers, "onCancelOrder")
    IN /\ BrokerCalls < MaxPlaceCalls
       /\ brokerCall' = [kind |-> "cancel", strategy |-> strategy, answers |-> answers,
                         args |-> <<[symbol |-> <<"", "">>, offset |-> "none",
                                     side |-> "none", volume |-> 0, price |-> 0,
                                     flag |-> "none", order |-> <<order>>]>>]
       /\ IF chain.allowed
          THEN /\ CancelOrderCall(order, retval)
               /\ brokerLog' = brokerLog \o chain.calls
                                 \o <<BrokerCalled("trader", "cancelOrder", <<>>)>>
               /\ UNCHANGED <<barVars, retryVars, detVars, dayVars, fanVars>>
          ELSE /\ brokerLog' = brokerLog \o chain.calls
                                 \o RiskRejected(strategy, "cancel-order-risk",
                                                 chain.reason, "onCancelOrderError")
               /\ UNCHANGED <<ordVars, mktVars, rateVars, loginVars, reqVars, barVars, retryVars, detVars, dayVars, fanVars>>
       /\ BrokerFrame

\* strategies.forEach((strategy) => strategy.<fn>(this)): the calls, in order.
RECURSIVE EachStrategy(_, _)
EachStrategy(list, fn) ==
    IF list = <<>> THEN <<>>
    ELSE <<BrokerCalled(Head(list), fn, <<>>)>> \o EachStrategy(Tail(list), fn)

MarketFiresAgain(done) == TRUE

\* if (!fired) in the RspUserLogin handler of Market.open
MarketFires(done) == ~done

\* Trader.close calls so far.
Stops ==
    Cardinality({i \in 1..Len(brokerLog) :
                    brokerLog[i] = BrokerCalled("trader", "close", <<>>)})

\* Broker.start(): this.trader.open(this.traderLifecycle); an open trader
\* returns at once.
BrokerStart ==
    /\ starts < MaxStarts
    /\ starts' = starts + 1
    /\ traderApi' = TRUE
    /\ fired' = IF traderApi THEN fired ELSE FALSE
    /\ traderLifecycle' = IF traderApi THEN traderLifecycle ELSE "broker"
    /\ brokerLog' = Append(brokerLog, BrokerCalled("trader", "open", <<>>))
    /\ lastRsp' = <<>>
    /\ Deliver(<<>>)
    /\ UNCHANGED <<tradingDay, frontId, sessionId, loginSleeping, connected, inflight,
                   reconnects, firstSubmitted, answeredOk, orderOk, opens>>
    /\ UNCHANGED <<strategies, placeOrderRiskManagers, cancelOrderRiskManagers, marketApi,
                   marketFired, marketLink, marketLogins, brokerCall>>
    /\ UNCHANGED <<ordState, mktVars, rateVars, reqVars, barVars, retryVars, detVars, dayVars, fanVars>>

\* Broker.stop(): trader.close(traderLifecycle), whose onClose closes the
\* market, whose onClose calls onDestroy on every strategy and then
\* market.stopRecorder(). A closed trader and a closed market return at once.
\* stopRecorder runs with marketApi unset: its request returns undefined,
\* which _withRetry hands back like a refusal.
BrokerStop ==
    LET closing == traderApi /\ marketApi
        ids == {i \in recordings : ~MapHas(subscribers, i)}
    IN /\ Stops < starts
       /\ brokerLog' =
            brokerLog \o <<BrokerCalled("trader", "close", <<>>)>>
              \o (IF traderApi THEN <<BrokerCalled("market", "close", <<>>)>> ELSE <<>>)
              \o (IF closing
                  THEN EachStrategy(strategies, "onDestroy")
                         \o <<BrokerCalled("market", "stopRecorder", <<>>)>>
                  ELSE <<>>)
       /\ traderApi' = FALSE
       /\ connected' = IF traderApi THEN FALSE ELSE connected
       /\ inflight' = IF traderApi THEN <<>> ELSE inflight
       /\ marketApi' = IF traderApi THEN FALSE ELSE marketApi
       /\ marketLink' = IF closing THEN "down" ELSE marketLink
       /\ IF closing /\ recordings # {}
          THEN /\ symbols' = [i \in (DOMAIN symbols) \ ids |-> symbols[i]]
               /\ recordings' = {}
               /\ MdRequest("unsubscribe", ids, -1)
          ELSE UNCHANGED <<recordings, symbols, mdSleeping, mdFailed, wire, wireSubs,
                           wireUnsubs>>
       /\ lastRsp' = <<>>
       /\ Deliver(<<>>)
       /\ UNCHANGED <<subscribers, recorder, mdCalls, balance, ordered>>
       /\ UNCHANGED <<fired, tradingDay, frontId, sessionId, loginSleeping, reconnects,
                      firstSubmitted, answeredOk, orderOk, opens>>
       /\ UNCHANGED <<strategies, placeOrderRiskManagers, cancelOrderRiskManagers,
                      traderLifecycle, marketFired, marketLogins, starts, brokerCall>>
       /\ UNCHANGED <<ordState, rateVars, reqVars, barVars, retryVars, detVars, dayVars, fanVars>>

\* The market front connects: the FrontConnected handler asks for the login;
\* the gateway accepts the request (0) or refuses it.
MarketFrontConnected(retval) ==
    /\ marketApi /\ marketLink = "down"
    /\ marketLogins < MaxMarketLogins
    /\ marketLogins' = marketLogins + 1
    /\ marketLink' = IF RetryStep(retval) = "done" THEN "asked" ELSE "idle"
    /\ UNCHANGED <<strategies, placeOrderRiskManagers, cancelOrderRiskManagers,
                   traderLifecycle, marketApi, marketFired, starts, brokerCall, brokerLog>>
    /\ UNCHANGED <<ordVars, mktVars, rateVars, loginVars, reqVars, barVars, retryVars, detVars, dayVars, fanVars>>

\* The market front loses its connection.
MarketFrontDisconnected ==
    /\ marketApi /\ marketLink # "down"
    /\ marketLink' = "down"
    /\ UNCHANGED <<strategies, placeOrderRiskManagers, cancelOrderRiskManagers,
                   traderLifecycle, marketApi, marketFired, marketLogins, starts,
                   brokerCall, brokerLog>>
    /\ UNCHANGED <<ordVars, mktVars, rateVars, loginVars, reqVars, barVars, retryVars, detVars, dayVars, fanVars>>

\* The RspUserLogin handler of Market.open with the Broker's marketLifecycle:
\* an error goes to the error sink; otherwise the last-tick cache is emptied
\* when the trading day (day) is not the stored one, what is recorded is subscribed
\* again (Object.keys of the subscribers Map is empty) and, the first time
\* since the open, onOpen runs: with a recorder the instruments are queried
\* and startRecorder is called (syms is what the recorder selects), then
\* every strategy gets onInit. Nothing is recorded before the first login of
\* an open.
MarketRspUserLogin(rspInfo, syms, retval, day) ==
    LET acc == StartRecorderEach(syms, [recordings |-> recordings, symbols |-> symbols,
                                        instrumentIds |-> {}])
        opening == MarketFires(marketFired)
    IN /\ marketApi /\ marketLink = "asked"
       /\ marketFired \/ recordings = {}
       /\ IF IsErrorResp(rspInfo)
          THEN /\ marketLink' = "idle"
               /\ brokerLog' = Append(brokerLog, BrokerCalled("errorReceiver", "onError",
                                                              <<"login-error">>))
               /\ UNCHANGED <<marketFired, mktVars, lastTick, dayVars, fanVars>>
          ELSE /\ marketLink' = "in"
               /\ marketFired' = TRUE
               /\ lastTick' = IF DayChanged(marketTradingDay, day) THEN <<>> ELSE lastTick
               /\ marketTradingDay' = day
               /\ marketDay' = <<day>>
               /\ IF opening /\ recorder
                  THEN /\ recordings' = acc.recordings
                       /\ symbols' = acc.symbols
                       /\ MdRequest("subscribe", acc.instrumentIds, retval)
                  ELSE /\ MdRequest("subscribe", IF opening THEN {} ELSE recordings, retval)
                       /\ UNCHANGED <<recordings, symbols>>
               /\ brokerLog' =
                    IF opening
                    THEN brokerLog
                           \o (IF recorder
                               THEN <<BrokerCalled("trader", "queryInstruments", <<>>),
                                      BrokerCalled("market", "startRecorder", <<>>)>>
                               ELSE <<>>)
                           \o EachStrategy(strategies, "onInit")
                    ELSE brokerLog
               /\ UNCHANGED <<subscribers, recorder, mdCalls, balance, ordered>>
       /\ UNCHANGED <<strategies, placeOrderRiskManagers, cancelOrderRiskManagers,
                      traderLifecycle, marketApi, marketLogins, starts, brokerCall>>
       /\ UNCHANGED <<tapeOf, tape, bar, barLog, maxVolume, barReceivers, shouldUpdate,
                      bars, merged>>
       /\ UNCHANGED <<ordVars, rateVars, loginVars, reqVars, retryVars, detVars, fanVars>>

\* ------------------------------------------------------------ retry helper

MaxRetryCalls == 3

\* The calls of _withRetry of a run.
RetryCalls == 1..MaxRetryCalls

\* One pass of the for (;;) loop of _withRetry for call c: the request is
\* invoked and returns retval; 0 resolves the call to the gateway's last
\* request id, -2 and -3 put it to sleep, any other value resolves it to that
\* value.
WithRetryAttempt(c, retval) ==
    /\ retry[c].pc \in {"idle", "woken"}
    /\ lastRequestId' = IF retval = 0 THEN lastRequestId + 1 ELSE lastRequestId
    /\ retry' = [retry EXCEPT ![c] =
                   CASE RetryStep(retval) = "done" ->
                          [pc |-> "done", retval |-> <<retval>>, result |-> <<lastRequestId'>>]
                     [] RetryStep(retval) = "sleep" ->
                          [pc |-> "sleeping", retval |-> <<retval>>, result |-> <<>>]
                     [] OTHER ->
                          [pc |-> "done", retval |-> <<retval>>, result |-> <<retval>>]]
    /\ UNCHANGED <<ordVars, mktVars, rateVars, loginVars, reqVars, brkVars, barVars, detVars, dayVars, fanVars>>

\* await this._sleep(ms); continue: the timer of call c fires.
WithRetryWake(c) ==
    /\ retry[c].pc = "sleeping"
    /\ retry' = [retry EXCEPT ![c].pc = "woken"]
    /\ UNCHANGED lastRequestId
    /\ UNCHANGED <<ordVars, mktVars, rateVars, loginVars, reqVars, brkVars, barVars, detVars, dayVars, fanVars>>

\* No call of _withRetry made yet.
InitRetry ==
    /\ retry = [c \in RetryCalls |-> [pc |-> "idle", retval |-> <<>>, result |-> <<>>]]
    /\ lastRequestId = 0

\* ------------------------------------------------- position-details query

\* Calls of queryPositionDetails in a run.
MaxDetailCalls == 3

\* Records of one position-details batch.
MaxDetailRecords == 2

DetailReceivers == {"r1", "r2"}

\* receivers.forEach((receiver) => receiver.onPositionDetails(arg)); the log
\* notes beside each call whether a trade was handled since the request
\* behind the answer was accepted.
AnswerDetails(queue, source, arg) ==
    [i \in 1..Len(queue) |->
        [to |-> queue[i], fn |-> "onPositionDetails", source |-> source, arg |-> arg,
         tradeSince |-> pdTradeSince]]

\* _withRetry on reqQryInvestorPositionDetail: one pass on the request's
\* return value. Nobody reads what the helper resolves to.
DetailAttempt(retval) ==
    CASE RetryStep(retval) = "done" ->
           /\ pdInflight' = pdInflight + 1
           /\ pdSent' = pdSent + 1
           /\ pdTradeSince' = FALSE
           /\ pdSleeping' = FALSE
      [] RetryStep(retval) = "sleep" ->
           /\ pdSleeping' = TRUE
           /\ UNCHANGED <<pdInflight, pdSent, pdTradeSince>>
      [] OTHER ->
           /\ pdSleeping' = FALSE
           /\ UNCHANGED <<pdInflight, pdSent, pdTradeSince>>

DetailFrame ==
    /\ UNCHANGED <<instruments, positions, orders, trades, orderStatistics, placeOrders,
                   orderRef, receivers, sleeping, gwRequestId, gw, calls, observe>>
    /\ UNCHANGED <<mktVars, rateVars, loginVars, reqVars, brkVars, barVars, retryVars, dayVars, fanVars>>

\* queryPositionDetails(receiver)
QueryPositionDetails(receiver, retval) ==
    /\ pdCalls < MaxDetailCalls
    /\ pdCalls' = pdCalls + 1
    /\ IF Len(positionDetailsQueue) > 0
       THEN /\ positionDetailsQueue' = Append(positionDetailsQueue, receiver)
            /\ UNCHANGED <<positionDetails, pdSleeping, pdInflight, pdSent, pdTradeSince,
                           pdLog>>
       ELSE IF ~positionDetailsChanged
       THEN /\ pdLog' = pdLog \o AnswerDetails(<<receiver>>, "cache", <<positionDetails>>)
            /\ UNCHANGED <<positionDetails, positionDetailsQueue, pdSleeping, pdInflight,
                           pdSent, pdTradeSince>>
       ELSE /\ positionDetailsQueue' = Append(positionDetailsQueue, receiver)
            /\ positionDetails' = <<>>
            /\ DetailAttempt(retval)
            /\ UNCHANGED pdLog
    /\ UNCHANGED positionDetailsChanged
    /\ DetailFrame

\* The timer of _withRetry's sleep fires and the request is made again.
DetailRetry(retval) ==
    /\ pdSleeping
    /\ DetailAttempt(retval)
    /\ UNCHANGED <<positionDetails, positionDetailsQueue, pdCalls, pdLog,
                   positionDetailsChanged>>
    /\ DetailFrame

\* The RspQryInvestorPositionDetail handler on one response of the gateway:
\* a record or none, an error payload or none, the last of its batch or not.
RspQryInvestorPositionDetail(record, rspInfo, isLast) ==
    IF IsErrorResp(rspInfo)
    THEN /\ pdLog' = pdLog \o <<[to |-> "lifecycle", fn |-> "onError",
                                 source |-> "error",
                                 arg |-> <<"query-position-details-error">>,
                                 tradeSince |-> pdTradeSince]>>
                           \o AnswerDetails(positionDetailsQueue, "error", <<>>)
         /\ positionDetailsQueue' = <<>>
         /\ UNCHANGED <<positionDetails, positionDetailsChanged>>
    ELSE LET details == positionDetails \o record
         IN /\ positionDetails' = details
            /\ IF isLast
               THEN /\ positionDetailsChanged' = FALSE
                    /\ pdLog' = pdLog \o AnswerDetails(positionDetailsQueue, "gateway",
                                                      <<details>>)
                    /\ positionDetailsQueue' = <<>>
               ELSE UNCHANGED <<positionDetailsChanged, pdLog, positionDetailsQueue>>

\* The gateway answers a request it accepted: records of the positions as of
\* that request, the last one marked, or one error response.
GwRspPositionDetail(hasRecord, rspInfo, isLast) ==
    /\ pdInflight > 0
    /\ rspInfo # <<>> => isLast /\ ~hasRecord
    /\ ~isLast => hasRecord /\ Len(positionDetails) + 1 < MaxDetailRecords
    /\ pdInflight' = IF isLast THEN pdInflight - 1 ELSE pdInflight
    /\ RspQryInvestorPositionDetail(IF hasRecord THEN <<[request |-> pdSent]>> ELSE <<>>,
                                    rspInfo, isLast)
    /\ UNCHANGED <<pdSleeping, pdSent, pdCalls, pdTradeSince>>
    /\ DetailFrame

\* The gateway reports a trade; the RtnTrade handler runs.
DetailRtnTrade(trade) ==
    /\ RtnTrade(trade)
    /\ pdTradeSince' = TRUE
    /\ UNCHANGED <<positionDetails, positionDetailsQueue, pdSleeping, pdInflight, pdSent,
                   pdCalls, pdLog>>
    /\ UNCHANGED <<instruments, orders, orderStatistics, placeOrders, orderRef, receivers,
                   sleeping, gwRequestId, gw, observe>>
    /\ UNCHANGED <<mktVars, rateVars, loginVars, reqVars, brkVars, barVars, retryVars, dayVars, fanVars>>

InitDetails ==
    /\ positionDetails = <<>>
    /\ positionDetailsQueue = <<>>
    /\ pdSleeping = FALSE
    /\ pdInflight = 0
    /\ pdSent = 0
    /\ pdCalls = 0
    /\ pdTradeSince = TRUE
    /\ pdLog = <<>>

\* -------------------------------------------------------- tape classifier

\* Prices are counted in halves of the price tick: a price that is present is
\* an even number, and Number.MIN_VALUE, the smallest double above 0, lies
\* between 0 and the lowest price.
MinValue == 1

CalcTapeTypeNoDual(volumeDelta, interestDelta) ==
    IF interestDelta > 0 THEN "open"
    ELSE IF interestDelta < 0 THEN "close"
    ELSE IF volumeDelta > 0 THEN "turnover"
    ELSE "no-deal"

\* calcTapeType
CalcTapeType(volumeDelta, interestDelta) ==
    IF interestDelta > 0
    THEN (IF volumeDelta = interestDelta THEN "dual-open" ELSE "open")
    ELSE IF interestDelta < 0
    THEN (IF volumeDelta + interestDelta = 0 THEN "dual-close" ELSE "close")
    ELSE IF volumeDelta > 0 THEN "turnover"
    ELSE "no-deal"

\* price[0] ?? dflt: the first level of one side of the order book.
Level1(prices, dflt) == IF Len(prices) > 0 THEN prices[1] ELSE dflt

\* calcTapeDirection; preTick is <<>> or <<tick>>.
CalcTapeDirection(tick, preTick) ==
    LET lastPrice == tick.lastPrice
        askPrice1 == Level1(tick.orderBook.asks.price, MaxValue)
        bidPrice1 == Level1(tick.orderBook.bids.price, MinValue)
    IN IF preTick # <<>>
       THEN LET preAskPrice1 == Level1(preTick[1].orderBook.asks.price, MaxValue)
                preBidPrice1 == Level1(preTick[1].orderBook.bids.price, MinValue)
                prePrice == preTick[1].lastPrice
            IN IF lastPrice >= preAskPrice1 THEN "up"
               ELSE IF lastPrice <= preBidPrice1 THEN "down"
               ELSE IF lastPrice >= askPrice1 THEN "up"
               ELSE IF lastPrice <= bidPrice1 THEN "down"
               ELSE IF lastPrice > prePrice THEN "up"
               ELSE IF lastPrice < prePrice THEN "down"
               ELSE IF bidPrice1 >= preAskPrice1 THEN "up"
               ELSE IF askPrice1 <= preBidPrice1 THEN "down"
               ELSE "none"
       ELSE IF lastPrice >= askPrice1 THEN "up"
            ELSE IF lastPrice <= bidPrice1 THEN "down"
            ELSE IF lastPrice > tick.preClose THEN "up"
            ELSE IF lastPrice < tick.preClose THEN "down"
            ELSE "none"

\* calcTapeStatus
CalcTapeStatus(tapeType, tapeDirection) ==
    IF tapeType = "open" /\ tapeDirection = "up" THEN "open-long"
    ELSE IF tapeType = "open" /\ tapeDirection = "down" THEN "open-short"
    ELSE IF tapeType = "close" /\ tapeDirection = "up" THEN "close-short"
    ELSE IF tapeType = "close" /\ tapeDirection = "down" THEN "close-long"
    ELSE IF tapeType = "turnover" /\ tapeDirection = "up" THEN "turnover-long"
    ELSE IF tapeType = "turnover" /\ tapeDirection = "down" THEN "turnover-short"
    ELSE IF tapeType = "dual-open" THEN "dual-open"
    ELSE IF tapeType = "dual-close" THEN "dual-close"
    ELSE "invalid"

\* The amountDelta of TapeData: the turnover since the previous tick.
AmountDelta(tick, preTick) ==
    IF preTick # <<>> THEN tick.amount - preTick[1].amount ELSE tick.amount

\* calcTapeData(tick, preTick)
CalcTapeData(tick, preTick) ==
    LET volumeDelta == IF preTick # <<>> THEN tick.volume - preTick[1].volume
                       ELSE tick.volume
        interestDelta == IF preTick # <<>>
                         THEN tick.openInterest - preTick[1].openInterest
                         ELSE tick.openInterest - tick.preOpenInterest
        tapeType == CalcTapeType(volumeDelta, interestDelta)
        tapeDirection == CalcTapeDirection(tick, preTick)
    IN [symbol |-> tick.symbol, date |-> tick.date, time |-> tick.time,
        volumeDelta |-> volumeDelta, interestDelta |-> interestDelta,
        amountDelta |-> AmountDelta(tick, preTick),
        type |-> tapeType, direction |-> tapeDirection,
        status |-> CalcTapeStatus(tapeType, tapeDirection)]

\* The first levels the gateway's depth data may show: a side is empty or
\* holds one price, and the ask is above the bid.
OrderBooks ==
    {[asks |-> [price |-> a], bids |-> [price |-> b]] :
        a \in {<<>>, <<2>>, <<4>>}, b \in {<<>>, <<2>>, <<4>>}}

\* The raw LastPrice: a price, or 0 or the sentinel while nothing has traded.
LastPrices == {0, 2, 4, MaxValue}

\* The volume and the open interest a tick may show.
MaxTickVolume == 1
MaxOpenInterest == 2

\* The ticks of one instrument in one minute of one day.
TapeTicks ==
    {[symbol |-> MkSymbol("X", "DCE"), date |-> 1, time |-> 93000,
      preOpenInterest |-> 1, preClose |-> 2, openInterest |-> oi,
      lastPrice |-> p, volume |-> v, amount |-> 2 * v, orderBook |-> ob] :
        oi \in 0..MaxOpenInterest, p \in LastPrices, v \in 0..MaxTickVolume,
        ob \in {b \in OrderBooks :
                  b.asks.price = <<>> \/ b.bids.price = <<>>
                  \/ b.asks.price[1] > b.bids.price[1]}}

\* The depth-data handler of Market.open on a tick of a subscribed
\* instrument: the tape is computed against the cached tick, which the new
\* tick replaces.
MarketTick(tick) ==
    /\ tape' = <<CalcTapeData(tick, lastTick)>>
    /\ tapeOf' = [tick |-> <<tick>>, preTick |-> lastTick]
    /\ lastTick' = <<tick>>
    /\ UNCHANGED <<bar, barLog, maxVolume, barReceivers, shouldUpdate, bars, merged>>
    /\ UNCHANGED <<ordVars, mktVars, rateVars, loginVars, reqVars, brkVars, retryVars, detVars, dayVars>>

\* ------------------------------------------------------------ bar aggregator

\* The prices a bar's volume is kept at.
BarPrices == {2, 4}

\* bar.buyVolumes[price] ?? 0
GetBarBuyVolume(b, price) == IF MapHas(b.buyVolumes, price) THEN b.buyVolumes[price] ELSE 0

\* bar.sellVolumes[price] ?? 0
GetBarSellVolume(b, price) ==
    IF MapHas(b.sellVolumes, price) THEN b.sellVolumes[price] ELSE 0

\* getBarVolume
GetBarVolume(b, price) == GetBarBuyVolume(b, price) + GetBarSellVolume(b, price)

\* The least of a non-empty set of numbers: `for (const price in volumes)`
\* visits integer keys in ascending order.
MinOf(S) == CHOOSE x \in S : \A y \in S : x <= y

\* if (price in volumes) volumes[price] += volumeDelta; else volumes[price] =
\* volumeDelta
AddVolume(volumes, price, volumeDelta) ==
    MapSet(volumes, price,
           IF MapHas(volumes, price) THEN volumes[price] + volumeDelta ELSE volumeDelta)

MovePocOnTie(b, price) ==
    IF GetBarVolume(b, price) >= GetBarVolume(b, b.poc) THEN [b EXCEPT !.poc = price] ELSE b

\* if (priceVP > pocVP) bar.poc = price
MovePoc(b, price) ==
    IF GetBarVolume(b, price) > GetBarVolume(b, b.poc) THEN [b EXCEPT !.poc = price] ELSE b

\* The `for (const price in nextBar.buyVolumes)` loop of mergeBarData over the
\* prices left.
RECURSIVE MergeBuyVolumes(_, _, _)
MergeBuyVolumes(b, volumes, left) ==
    IF left = {} THEN b
    ELSE LET price == MinOf(left)
             added == [b EXCEPT !.buyVolumes = AddVolume(@, price, volumes[price]),
                                !.delta = @ + volumes[price]]
         IN MergeBuyVolumes(MovePoc(added, price), volumes, left \ {price})

\* The `for (const price in nextBar.sellVolumes)` loop.
RECURSIVE MergeSellVolumes(_, _, _)
MergeSellVolumes(b, volumes, left) ==
    IF left = {} THEN b
    ELSE LET price == MinOf(left)
             added == [b EXCEPT !.sellVolumes = AddVolume(@, price, volumes[price]),
                                !.delta = @ - volumes[price]]
         IN MergeSellVolumes(MovePoc(added, price), volumes, left \ {price})

\* Math.max, Math.min
MathMax(a, b) == IF a >= b THEN a ELSE b
MathMin(a, b) == IF a <= b THEN a ELSE b

\* The body of the `for (let i = 1; ...)` loop of mergeBarData.
MergeNextBar(b, nextBar) ==
    LET head == [b EXCEPT !.openInterest = nextBar.openInterest,
                          !.closePrice = nextBar.closePrice,
                          !.highPrice = MathMax(@, nextBar.highPrice),
                          !.lowPrice = MathMin(@, nextBar.lowPrice),
                          !.volume = @ + nextBar.volume,
                          !.amount = @ + nextBar.amount]
        bought == MergeBuyVolumes(head, nextBar.buyVolumes, DOMAIN nextBar.buyVolumes)
    IN MergeSellVolumes(bought, nextBar.sellVolumes, DOMAIN nextBar.sellVolumes)

RECURSIVE MergeEach(_, _)
MergeEach(b, rest) ==
    IF rest = <<>> THEN b ELSE MergeEach(MergeNextBar(b, Head(rest)), Tail(rest))

\* mergeBarData(bars) for a non-empty list: <<>> is undefined, which is what
\* bars[1] of a one-element list is.
MergeBarData(list) ==
    IF Len(list) = 1 THEN <<>>
    ELSE <<MergeEach([list[1] EXCEPT !.amount = list[1].volume], Tail(list))>>

\* The tick receivers of a generator: b1 declares onUpdateBar, b2 does not.
BarReceivers == {"b1", "b2"}

HasOnUpdateBar(receiver) == receiver = "b1"

\* A callback of the generator on a receiver with the bar it passes.
BarCalled(to, fn, b) == [to |-> to, fn |-> fn, bar |-> b]

\* receivers.forEach((receiver) => receiver.onBar(bar))
RECURSIVE OnBarEach(_, _)
OnBarEach(rs, b) ==
    IF rs = <<>> THEN <<>> ELSE <<BarCalled(Head(rs), "onBar", b)>> \o OnBarEach(Tail(rs), b)

\* receivers.forEach: onUpdateBar on the receivers that declare it.
RECURSIVE OnUpdateBarEach(_, _)
OnUpdateBarEach(rs, b) ==
    IF rs = <<>> THEN <<>>
    ELSE (IF HasOnUpdateBar(Head(rs)) THEN <<BarCalled(Head(rs), "onUpdateBar", b)>>
          ELSE <<>>) \o OnUpdateBarEach(Tail(rs), b)

\* Math.floor(tick.time / 100) * 100, or the tick's time in volume mode.
BarTime(time) == IF maxVolume > 0 THEN time ELSE (time \div 100) * 100

IsFinishedByVolume(b, date, time) == b.volume >= maxVolume

\* isFinished of onTick
IsFinished(b, date, time) ==
    IF maxVolume > 0 THEN b.volume >= maxVolume ELSE b.date # date \/ b.time # time

\* BarGenerator._createBar
CreateBar(date, time, tick) ==
    [symbol |-> MkSymbol("X", "DCE"), date |-> date, time |-> time,
     openInterest |-> tick.openInterest, openPrice |-> tick.lastPrice,
     highPrice |-> tick.lastPrice, lowPrice |-> tick.lastPrice,
     closePrice |-> tick.lastPrice, volume |-> 0, amount |-> 0, delta |-> 0,
     poc |-> tick.lastPrice, buyVolumes |-> EmptyMap, sellVolumes |-> EmptyMap]

\* The update of the bar by a tick whose tape shows a volume: OHLC, volume and
\* amount, the side's volume at the last price, delta and poc.
UpdateBar(b, tick, tp) ==
    LET head == [b EXCEPT !.openInterest = tick.openInterest,
                          !.closePrice = tick.lastPrice,
                          !.highPrice = MathMax(@, tick.lastPrice),
                          !.lowPrice = MathMin(@, tick.lastPrice),
                          !.volume = @ + tp.volumeDelta,
                          !.amount = @ + tp.amountDelta]
        sided ==
            CASE tp.direction = "up" ->
                   [head EXCEPT !.buyVolumes = AddVolume(@, tick.lastPrice, tp.volumeDelta),
                                !.delta = @ + tp.volumeDelta]
              [] tp.direction = "down" ->
                   [head EXCEPT !.sellVolumes = AddVolume(@, tick.lastPrice, tp.volumeDelta),
                                !.delta = @ - tp.volumeDelta]
              [] OTHER -> head
    IN IF tick.lastPrice # sided.poc /\ tp.direction # "none"
       THEN MovePoc(sided, tick.lastPrice)
       ELSE sided

\* BarGenerator.onTick(tick, tape): [bar, calls] after the call.
OnTick(tick, tp) ==
    LET date == tick.date
        time == BarTime(tick.time)
        finished == bar # <<>> /\ IsFinished(bar[1], date, time)
        emitted == IF finished THEN OnBarEach(barReceivers, bar[1]) ELSE <<>>
        kept == IF finished THEN <<>> ELSE bar
        begun == IF kept = <<>> THEN CreateBar(date, time, tick) ELSE kept[1]
        updated == UpdateBar(begun, tick, tp)
    IN IF tick.symbol # MkSymbol("X", "DCE") THEN [bar |-> bar, calls |-> <<>>]
       ELSE IF tp.volumeDelta = 0 THEN [bar |-> kept, calls |-> emitted]
       ELSE [bar |-> <<updated>>,
             calls |-> emitted \o (IF shouldUpdate > 0
                                   THEN OnUpdateBarEach(barReceivers, updated)
                                   ELSE <<>>)]

\* BarGenerator.addReceiver
AddBarReceiver(receiver) ==
    /\ IF ~Includes(barReceivers, receiver)
       THEN /\ shouldUpdate' = IF HasOnUpdateBar(receiver) THEN shouldUpdate + 1
                               ELSE shouldUpdate
            /\ barReceivers' = Append(barReceivers, receiver)
       ELSE UNCHANGED <<shouldUpdate, barReceivers>>
    /\ UNCHANGED <<lastTick, tapeOf, tape, bar, barLog, maxVolume, bars, merged>>
    /\ UNCHANGED <<ordVars, mktVars, rateVars, loginVars, reqVars, brkVars, retryVars, detVars, dayVars, fanVars>>

\* BarGenerator.removeReceiver
RemoveBarReceiver(receiver) ==
    /\ IF IndexOf(barReceivers, receiver) > 0
       THEN /\ shouldUpdate' = IF HasOnUpdateBar(receiver) THEN shouldUpdate - 1
                               ELSE shouldUpdate
            /\ barReceivers' = Splice(barReceivers, IndexOf(barReceivers, receiver))
       ELSE UNCHANGED <<shouldUpdate, barReceivers>>
    /\ UNCHANGED <<lastTick, tapeOf, tape, bar, barLog, maxVolume, bars, merged>>
    /\ UNCHANGED <<ordVars, mktVars, rateVars, loginVars, reqVars, brkVars, retryVars, detVars, dayVars, fanVars>>

\* The depth-data handler of Market.open with the generator subscribed: the
\* tape against the cached tick, then BarGenerator.onTick(tick, tape).
GeneratorTick(tick) ==
    LET tp == CalcTapeData(tick, lastTick)
        after == OnTick(tick, tp)
    IN /\ tape' = <<tp>>
       /\ tapeOf' = [tick |-> <<tick>>, preTick |-> lastTick]
       /\ lastTick' = <<tick>>
       /\ bar' = after.bar
       /\ barLog' = barLog \o after.calls
       /\ UNCHANGED <<maxVolume, barReceivers, shouldUpdate, bars, merged>>
       /\ UNCHANGED <<ordVars, mktVars, rateVars, loginVars, reqVars, brkVars, retryVars, detVars, dayVars, fanVars>>

\* A call of mergeBarData on a non-empty list.
MergeBars(list) ==
    /\ bars' = list
    /\ merged' = [done |-> TRUE, bar |-> MergeBarData(list)]
    /\ UNCHANGED <<lastTick, tapeOf, tape, bar, barLog, maxVolume, barReceivers,
                   shouldUpdate>>
    /\ UNCHANGED <<ordVars, mktVars, rateVars, loginVars, reqVars, brkVars, retryVars, detVars, dayVars, fanVars>>

\* No tick seen; a one-minute generator without receivers and without a bar;
\* mergeBarData not called.
InitTape ==
    /\ lastTick = <<>>
    /\ tapeOf = [tick |-> <<>>, preTick |-> <<>>]
    /\ tape = <<>>

\* this.tradingDay = 0 in the constructor of Market.
InitDay ==
    /\ marketTradingDay = 0
    /\ marketDay = <<>>

\* No tick is being delivered.
InitFanout ==
    /\ fanout = [pc |-> "idle", k |-> 0, len |-> 0, live |-> FALSE, at |-> <<>>,
                 tick |-> <<>>, pre |-> <<>>, ticks |-> 0]
    /\ tickLog = <<>>

InitGenerator ==
    /\ bar = <<>>
    /\ barLog = <<>>
    /\ barReceivers = <<>>
    /\ shouldUpdate = 0

InitMerge ==
    /\ bars = <<>>
    /\ merged = [done |-> FALSE, bar |-> <<>>]

InitBars == InitTape /\ InitGenerator /\ InitMerge /\ maxVolume = 0

\* ------------------------------------------------------------ specification

\* The requests of a fresh trader: nothing correlated, queued or cached.
InitRequests ==
    /\ cancelOrders = EmptyMap
    /\ marketOrdersQueue = EmptyMap
    /\ queueHeap = <<>>
    /\ priceLimit = EmptyMap
    /\ reqSleeping = <<>>
    /\ gwReqs = {}
    /\ callLog = <<>>
    /\ outcomes = [n \in 1..MaxPlaceCalls |-> <<>>]
    /\ stale = {}
    /\ lastStep = [op |-> "none", id |-> 0, arg |-> <<>>]


\* The Broker after construction: nothing registered, nothing started.
InitBroker ==
    /\ strategies = <<>>
    /\ placeOrderRiskManagers = <<>>
    /\ cancelOrderRiskManagers = <<>>
    /\ traderLifecycle = "listener"
    /\ marketApi = FALSE
    /\ marketFired = FALSE
    /\ marketLink = "down"
    /\ marketLogins = 0
    /\ starts = 0
    /\ brokerCall = [kind |-> "none", strategy |-> "",
                     answers |-> EmptyMap,
                     args |-> <<>>]
    /\ brokerLog = <<>>

\* Positions as the login pipeline loads them: history rows only.
LoginPositions ==
    {EmptyMap} \cup
    {MkSymbol("X", "DCE") :>
        [ZeroPosition EXCEPT !.history.long.position = h, !.history.short.position = h] :
        h \in 1..MaxInitPos}

\* The trader's state apart from its positions, after a completed login,
\* with one order receiver registered.
InitTrader ==
    /\ instruments = LoadedInstruments
    /\ orders = EmptyMap
    /\ trades = EmptyMap
    /\ orderStatistics = EmptyMap
    /\ placeOrders = EmptyMap
    /\ orderRef = 0
    /\ receivers = <<"broker">>
    /\ sleeping = <<>>
    /\ gwRequestId = 0
    /\ gw = <<>>
    /\ positionDetailsChanged = TRUE
    /\ calls = <<>>

Init ==
    /\ InitTrader
    /\ observe = FALSE
    /\ positions \in LoginPositions
    /\ InitMarket
    /\ recorder = FALSE
    /\ InitRates
    /\ InitRequests
    /\ InitBroker
    /\ InitBars
    /\ InitRetry
    /\ InitDetails
    /\ InitDay
    /\ InitFanout
    /\ InitLoggedIn

Next ==
    \/ /\ Len(gw) + Len(sleeping) < MaxOrders
       /\ \E symbol \in PlaceSymbols, volume \in 0..MaxVolume :
             PlaceOrder(symbol, volume, "rcv")
       /\ UNCHANGED <<mktVars, rateVars, loginVars, reqVars, brkVars, barVars, retryVars, detVars, dayVars, fanVars>>
    \/ /\ \E retval \in RetCodes : RetryPlace(retval)
       /\ UNCHANGED <<mktVars, rateVars, loginVars, reqVars, brkVars, barVars, retryVars, detVars, dayVars, fanVars>>
    \/ /\ \E o \in 1..Len(gw), st \in OrderStatuses, sub \in SubmitStatuses,
             m \in 0..MaxVolume :
             GwRtnOrder(o, st, sub, m)
       /\ UNCHANGED <<mktVars, rateVars, loginVars, reqVars, brkVars, barVars, retryVars, detVars, dayVars, fanVars>>
    \/ /\ \E o \in 1..Len(gw), v \in 1..MaxVolume : GwRtnTrade(o, v)
       /\ UNCHANGED <<mktVars, rateVars, loginVars, reqVars, brkVars, barVars, retryVars, detVars, dayVars, fanVars>>
    \/ /\ QueryOrders("rcv")
       /\ UNCHANGED <<mktVars, rateVars, loginVars, reqVars, brkVars, barVars, retryVars, detVars, dayVars, fanVars>>

Spec == Init /\ [][Next]_vars

\* ------------------------------------------------- orders with callbacks

\* The trader of Spec with the callbacks of every step recorded.
InitSpecOrder ==
    /\ InitTrader
    /\ observe = TRUE
    /\ positions \in LoginPositions
    /\ InitMarket
    /\ recorder = FALSE
    /\ InitRates
    /\ InitRequests
    /\ InitBroker
    /\ InitBars
    /\ InitRetry
    /\ InitDetails
    /\ InitDay
    /\ InitFanout
    /\ InitLoggedIn

NextOrder ==
    \/ /\ Len(gw) < MaxOrders
       /\ \E offset \in {"open", "close"}, volume \in 1..MaxVolume :
             PlaceAttempt(MkSymbol("X", "DCE"), offset, "long", volume, "rcv", 0, sleeping)
       /\ UNCHANGED <<instruments, positions, orders, trades, receivers,
                      positionDetailsChanged, observe>>
       /\ UNCHANGED <<mktVars, rateVars, loginVars, reqVars, brkVars, barVars, retryVars, detVars, dayVars, fanVars>>
    \/ /\ \E o \in 1..Len(gw), st \in OrderStatuses, sub \in SubmitStatuses,
             m \in 0..MaxVolume :
             GwRtnOrder(o, st, sub, m)
       /\ UNCHANGED <<mktVars, rateVars, loginVars, reqVars, brkVars, barVars, retryVars, detVars, dayVars, fanVars>>
    \/ /\ \E o \in 1..Len(gw), v \in 1..MaxVolume : GwRtnTrade(o, v)
       /\ UNCHANGED <<mktVars, rateVars, loginVars, reqVars, brkVars, barVars, retryVars, detVars, dayVars, fanVars>>

SpecOrder == InitSpecOrder /\ [][NextOrder]_vars

\* --------------------------------------- raw orders of any status combination

\* Notifications handled for the one order of SpecStatus that changed a
\* statistic.
MaxRawOrders == 2

\* The OrderSubmitStatus values _calcOrderStatus distinguishes, and two others.
RawSubmitStatuses == SubmitStatuses \cup {"CancelRejected", "ModifyRejected"}

RawOrderId == <<"DCE", "T", 1>>

\* The volume a notification of the order carries: any on its first
\* notification, the stored order's afterwards.
RawVolumes ==
    IF MapHas(orders, RawOrderId) THEN {orders[RawOrderId].VolumeTotalOriginal}
    ELSE 1..MaxVolume

StatTotal ==
    IF MapHas(orderStatistics, MkSymbol("X", "DCE"))
    THEN LET st == orderStatistics[MkSymbol("X", "DCE")]
         IN st.entrusts + st.filleds + st.cancels + st.rejects
    ELSE 0

\* The gateway sends an RtnOrder of any (OrderStatus, OrderSubmitStatus).
RawRtnOrder(st, sub, volume) ==
    /\ StatTotal < MaxRawOrders
    /\ RtnOrder([ExchangeID |-> "DCE", TraderID |-> "T", OrderLocalID |-> 1,
                 InstrumentID |-> "X", Direction |-> ToDirection("long"),
                 CombOffsetFlag |-> ToOffsetFlag("open"),
                 VolumeTotalOriginal |-> volume,
                 OrderStatus |-> st, OrderSubmitStatus |-> sub])
    /\ UNCHANGED <<instruments, trades, placeOrders, orderRef, receivers, sleeping,
                   gwRequestId, gw, positionDetailsChanged, observe>>

\* The gateway sends an RtnTrade of the order, of any volume.
RawRtnTrade(v) ==
    /\ SumVolume(TradesOf(trades, RawOrderId)) + v <= MaxVolume + 1
    /\ RtnTrade([ExchangeID |-> "DCE", TraderID |-> "T", OrderLocalID |-> 1,
                 TradeID |-> Len(TradesOf(trades, RawOrderId)) + 1, Volume |-> v])
    /\ UNCHANGED <<instruments, orders, orderStatistics, placeOrders, orderRef, receivers,
                   sleeping, gwRequestId, gw, observe>>

NextStatus ==
    \/ /\ \E st \in OrderStatuses, sub \in RawSubmitStatuses, volume \in RawVolumes :
             RawRtnOrder(st, sub, volume)
       /\ UNCHANGED <<mktVars, rateVars, loginVars, reqVars, brkVars, barVars, retryVars, detVars, dayVars, fanVars>>
    \/ /\ \E v \in 1..MaxVolume : RawRtnTrade(v)
       /\ UNCHANGED <<mktVars, rateVars, loginVars, reqVars, brkVars, barVars, retryVars, detVars, dayVars, fanVars>>

SpecStatus == InitSpecOrder /\ [][NextStatus]_vars

\* ------------------------------------------ position details and trades

\* Trades the gateway reports in SpecDetails.
MaxDetailTrades == 2

NextDetails ==
    \/ \E receiver \in DetailReceivers, retval \in {0, -1, -2} :
          QueryPositionDetails(receiver, retval)
    \/ \E retval \in {0, -1, -2} : DetailRetry(retval)
    \/ \E hasRecord \in BOOLEAN, rspInfo \in {<<>>, <<[ErrorID |-> 1, ErrorMsg |-> "e1"]>>},
          isLast \in BOOLEAN :
          GwRspPositionDetail(hasRecord, rspInfo, isLast)
    \/ /\ Len(TradesOf(trades, RawOrderId)) < MaxDetailTrades
       /\ DetailRtnTrade([ExchangeID |-> "DCE", TraderID |-> "T", OrderLocalID |-> 1,
                          TradeID |-> Len(TradesOf(trades, RawOrderId)) + 1, Volume |-> 1])

SpecDetails == Init /\ [][NextDetails]_vars

\* ----------------------------------------------- orders placed one by one

\* Orders of SpecFreeze.
MaxFreezeOrders == 2

\* Largest volume of an order of SpecFreeze.
MaxFreezeVolume == 3

\* The gateway has nothing more to send for its order g.
Terminal(g) == g.OrderStatus \in {"AllTraded", "Canceled"} /\ g.sent = g.matched

\* A strategy that places its next order, of any side, offset and volume,
\* once the orders before it are done.
NextFreeze ==
    \/ /\ Len(gw) < MaxFreezeOrders
       /\ \A o \in 1..Len(gw) : Terminal(gw[o])
       /\ \E offset \in Offsets, side \in Sides, volume \in 1..MaxFreezeVolume :
             PlaceAttempt(MkSymbol("X", "DCE"), offset, side, volume, "rcv", 0, sleeping)
       /\ UNCHANGED <<instruments, positions, orders, trades, receivers,
                      positionDetailsChanged, observe>>
       /\ UNCHANGED <<mktVars, rateVars, loginVars, reqVars, brkVars, barVars, retryVars, detVars, dayVars, fanVars>>
    \/ /\ \E o \in 1..Len(gw), st \in OrderStatuses, sub \in SubmitStatuses,
             m \in 0..MaxFreezeVolume :
             GwRtnOrder(o, st, sub, m)
       /\ UNCHANGED <<mktVars, rateVars, loginVars, reqVars, brkVars, barVars, retryVars, detVars, dayVars, fanVars>>
    \/ /\ \E o \in 1..Len(gw), v \in 1..MaxFreezeVolume : GwRtnTrade(o, v)
       /\ UNCHANGED <<mktVars, rateVars, loginVars, reqVars, brkVars, barVars, retryVars, detVars, dayVars, fanVars>>

SpecFreeze == Init /\ [][NextFreeze]_vars

\* ------------------------------------------- _calcPosition on any position

Buckets == [position : 0..MaxInitPos, frozen : 0..MaxInitPos]

\* Every position row whose fields are all in 0..MaxInitPos.
InitRows ==
    [today : [long : Buckets, short : Buckets],
     history : [long : Buckets, short : Buckets],
     pending : [long : 0..MaxInitPos, short : 0..MaxInitPos]]

InitCalcPosition ==
    /\ InitTrader
    /\ observe = FALSE
    /\ InitMarket
    /\ recorder = FALSE
    /\ InitRates
    /\ InitRequests
    /\ InitBroker
    /\ InitBars
    /\ InitRetry
    /\ InitDetails
    /\ InitDay
    /\ InitFanout
    /\ InitLoggedIn
    /\ positions \in {EmptyMap} \cup {MkSymbol("X", "DCE") :> row : row \in InitRows}

\* A fill of an order of the given side and offset: what the RtnTrade handler
\* does to the positions, _calcPosition(symbol, side, offset, volume).
Fill(symbol, side, offset, volume) ==
    /\ positions' = CalcPosition(positions, symbol, side, offset, volume)
    /\ positions'[symbol].today[side].position <= MaxPosition
    /\ UNCHANGED <<instruments, orders, trades, orderStatistics, placeOrders, orderRef,
                   receivers, sleeping, gwRequestId, gw, positionDetailsChanged, calls,
                   observe>>
    /\ UNCHANGED <<mktVars, rateVars, loginVars, reqVars, brkVars, barVars, retryVars, detVars, dayVars, fanVars>>

NextCalcPosition ==
    \E side \in Sides, offset \in Offsets, volume \in 1..MaxVolume :
        Fill(MkSymbol("X", "DCE"), side, offset, volume)

SpecCalcPosition == InitCalcPosition /\ [][NextCalcPosition]_vars

\* ------------------------------------------- the market router on its own

InitSpecMarket ==
    /\ InitTrader
    /\ observe = FALSE
    /\ positions = EmptyMap
    /\ InitMarket
    /\ recorder \in BOOLEAN
    /\ InitRates
    /\ InitRequests
    /\ InitBroker
    /\ InitBars
    /\ InitRetry
    /\ InitDetails
    /\ InitDay
    /\ InitFanout
    /\ InitLoggedIn

NextMarket ==
    \/ \E syms \in SymbolLists, receiver \in TickReceivers, retval \in RetCodes :
          Subscribe(syms, receiver, retval) /\ UNCHANGED fanVars
    \/ \E syms \in SymbolLists, receiver \in TickReceivers, retval \in RetCodes :
          Unsubscribe(syms, receiver, retval) /\ UNCHANGED fanVars
    \/ \E syms \in SymbolLists, retval \in RetCodes : StartRecorder(syms, retval)
    \/ \E retval \in RetCodes : StopRecorder(retval)
    \/ \E retval \in RetCodes : MdRetry(retval)

SpecMarket == InitSpecMarket /\ [][NextMarket]_vars

\* --------------------------------------------- the rate queries on their own

InitSpecRate ==
    /\ InitTrader
    /\ observe = TRUE
    /\ positions = EmptyMap
    /\ InitMarket
    /\ recorder = FALSE
    /\ InitRates
    /\ InitRequests
    /\ InitBroker
    /\ InitBars
    /\ InitRetry
    /\ InitDetails
    /\ InitDay
    /\ InitFanout
    /\ InitLoggedIn

\* The rate records the gateway may send.
RateRecords ==
    {<<>>} \cup {<<[InstrumentID |-> parseSymbol(symbol)[1], Ratio |-> ratio]>> :
                    symbol \in RateSymbols, ratio \in RateRatios}

NextRate ==
    \/ \E kind \in RateKinds, symbol \in RateSymbols, receiver \in RateReceivers,
          retval \in RetCodes :
          QueryRate(kind, symbol, receiver, retval)
    \/ \E retval \in RetCodes : RateRetry(retval)
    \/ \E rate \in RateRecords, rspInfo \in RspInfos : GwRspRate(rate, rspInfo)

SpecRate == InitSpecRate /\ [][NextRate]_vars

\* The rate queries against a gateway that accepts every request at once and
\* answers every request it accepted.
NextRateAnswered ==
    \/ \E kind \in RateKinds, symbol \in RateSymbols, receiver \in RateReceivers :
          QueryRate(kind, symbol, receiver, 0)
    \/ \E rate \in RateRecords, rspInfo \in RspInfos : GwRspRate(rate, rspInfo)

SpecRateAnswered ==
    /\ InitSpecRate
    /\ [][NextRateAnswered]_vars
    /\ WF_vars(\E rate \in RateRecords, rspInfo \in RspInfos : GwRspRate(rate, rspInfo))

\* -------------------------------------------- the login pipeline on its own

\* The trader as constructed: every map empty, open() not yet called.
InitSpecLogin ==
    /\ instruments = EmptyMap
    /\ positions = EmptyMap
    /\ orders = EmptyMap
    /\ trades = EmptyMap
    /\ orderStatistics = EmptyMap
    /\ placeOrders = EmptyMap
    /\ orderRef = 0
    /\ receivers = <<>>
    /\ sleeping = <<>>
    /\ gwRequestId = 0
    /\ gw = <<>>
    /\ positionDetailsChanged = TRUE
    /\ calls = <<>>
    /\ observe = TRUE
    /\ InitMarket
    /\ recorder = FALSE
    /\ InitRates
    /\ InitRequests
    /\ InitBroker
    /\ InitBars
    /\ InitRetry
    /\ InitDetails
    /\ InitDay
    /\ InitFanout
    /\ InitLogin

\* The records a response to req may carry (<<>>: none).
RspRecords(req) ==
    (IF req = "UserLogin" THEN {} ELSE {<<>>}) \cup
    {<<record>> : record \in LoginRecords(req)}

\* getTradingDay() is read by the RspUserLogin handler only.
DaysFor(req) == IF req = "UserLogin" THEN TradingDays ELSE {tradingDay}

\* The return values of the request the handler of a response submits, if any.
RetCodesFor(req, isLast) ==
    IF isLast /\ req # "QryInvestorPosition" THEN RetCodes ELSE {0}

NextLogin ==
    \/ Open
    \/ \E retval \in RetCodes : FrontConnected(retval)
    \/ FrontDisconnected
    \/ \E retval \in RetCodes : LoginRetry(retval)
    \/ \E i \in 1..Len(inflight), info \in ErrorInfos :
          GwLoginRsp(i, <<>>, <<info>>, TRUE, tradingDay, 0)
    \/ \E i \in 1..Len(inflight) :
          \E record \in RspRecords(inflight[i].req), isLast \in BOOLEAN,
             day \in DaysFor(inflight[i].req) :
             \E retval \in RetCodesFor(inflight[i].req, isLast) :
                GwLoginRsp(i, record, <<>>, isLast, day, retval)

SpecLogin == InitSpecLogin /\ [][NextLogin]_vars

\* ------------------------------------------ placing and cancelling on its own

InitSpecPlace ==
    /\ InitTrader
    /\ observe = FALSE
    /\ positions = EmptyMap
    /\ InitMarket
    /\ recorder = FALSE
    /\ InitRates
    /\ InitRequests
    /\ InitBroker
    /\ InitBars
    /\ InitRetry
    /\ InitDetails
    /\ InitDay
    /\ InitFanout
    /\ InitLoggedIn

\* The OrderData a caller of cancelOrder may hold: a snapshot of an order of
\* the engine taken now or when the order was entrusted (no cancelTime), or
\* one of an order the engine does not have.
CancelArgs ==
    {[id |-> UnknownOrderId, cancelTime |-> <<>>]} \cup
    {[id |-> id, cancelTime |-> <<>>] : id \in DOMAIN orders} \cup
    {[id |-> id, cancelTime |-> CancelTimeOf(orders[id])] : id \in DOMAIN orders}

\* Limit orders, cancellations, the gateway's answers and notifications.
NextPlace ==
    \/ \E symbol \in PlaceSymbols, side \in Sides, volume \in 0..1, price \in LimitPrices,
          retval \in RetCodes :
          PlaceOrderCall(symbol, "open", side, volume, price, "limit", <<>>, retval)
          /\ UNCHANGED <<brkVars, barVars, retryVars, detVars, dayVars, fanVars>>
    \/ \E order \in CancelArgs, retval \in RetCodes :
          CancelOrderCall(order, retval) /\ UNCHANGED <<brkVars, barVars, retryVars, detVars, dayVars, fanVars>>
    \/ \E retval \in RetCodes : PlaceRetry(retval)
    \/ \E retval \in RetCodes : RequestRetry(retval)
    \/ \E req \in gwReqs, rspInfo \in RspInfos : GwRspOrder(req, rspInfo)
    \/ \E o \in 1..Len(gw), st \in {"Unknown", "Canceled"}, sub \in SubmitStatuses,
          time \in {<<>>} \cup CancelTimes :
          GwRtnOrderEcho(o, st, sub, time)
    \/ FrontDisconnected

SpecPlace == InitSpecPlace /\ [][NextPlace]_vars

\* ------------------------------------------------ market orders on their own

\* Market orders, the depth query and its answer, the retries, a disconnect.
NextMarketOrder ==
    \/ \E symbol \in PlaceSymbols, side \in Sides, volume \in 0..1, price \in LimitPrices,
          tick \in FastTicks, retval \in RetCodes :
          PlaceOrderCall(symbol, "open", side, volume, price, "market", tick, retval)
          /\ UNCHANGED <<brkVars, barVars, retryVars, detVars, dayVars, fanVars>>
    \/ \E retval \in RetCodes : PlaceRetry(retval)
    \/ \E retval \in RetCodes : RequestRetry(retval)
    \/ \E req \in gwReqs, depthMarketData \in DepthRecords, rspInfo \in RspInfos,
          retvals \in UNION {[1..k -> RetCodes] : k \in 0..MaxPlaceCalls} :
          GwRspDepth(req, depthMarketData, rspInfo, retvals)
    \/ FrontDisconnected

SpecMarketOrder == InitSpecPlace /\ [][NextMarketOrder]_vars

\* ------------------------------------------------ the risk chain on its own

\* Risk managers are registered and orders are placed and cancelled through
\* the Broker; the gateway accepts or refuses each request at once.
NextRisk ==
    \/ \E riskMgr \in RiskManagers : AddPlaceOrderRiskManager(riskMgr)
    \/ \E riskMgr \in RiskManagers : AddCancelOrderRiskManager(riskMgr)
    \/ \E strategy \in Strategies, side \in Sides, price \in LimitPrices,
          answers \in [Registered(placeOrderRiskManagers) -> RiskResults],
          retval \in {0, -1} :
          BrokerPlaceOrder(strategy, MkSymbol("X", "DCE"), "open", side, 1, price, "limit",
                           answers, retval)
    \/ \E strategy \in Strategies, order \in CancelArgs,
          answers \in [Registered(cancelOrderRiskManagers) -> RiskResults],
          retval \in {0, -1} :
          BrokerCancelOrder(strategy, order, answers, retval)
    \/ \E o \in 1..Len(gw) : GwRtnOrderEcho(o, "Unknown", "InsertSubmitted", <<>>)

SpecRisk == InitSpecPlace /\ [][NextRisk]_vars

\* ------------------------------------------- starting and stopping the Broker

InitSpecStart ==
    /\ instruments = EmptyMap
    /\ positions = EmptyMap
    /\ orders = EmptyMap
    /\ trades = EmptyMap
    /\ orderStatistics = EmptyMap
    /\ placeOrders = EmptyMap
    /\ orderRef = 0
    /\ receivers = <<>>
    /\ sleeping = <<>>
    /\ gwRequestId = 0
    /\ gw = <<>>
    /\ positionDetailsChanged = TRUE
    /\ calls = <<>>
    /\ observe = FALSE
    /\ InitMarket
    /\ recorder \in BOOLEAN
    /\ InitRates
    /\ InitRequests
    /\ InitBroker
    /\ InitBars
    /\ InitRetry
    /\ InitDetails
    /\ InitDay
    /\ InitFanout
    /\ InitLogin

\* Strategies are registered, the Broker is started and stopped, both fronts
\* connect, answer the logins (with or without error) and lose the
\* connection; every request is accepted at once and every query is answered
\* with its one record.
NextStart ==
    \/ \E strategy \in Strategies : AddStrategy(strategy)
    \/ BrokerStart
    \/ BrokerStop
    \/ FrontConnected(0)
    \/ FrontDisconnected
    \/ \E i \in 1..Len(inflight), info \in ErrorInfos :
          /\ info.ErrorID = 1
          /\ GwLoginRsp(i, <<>>, <<info>>, TRUE, tradingDay, 0)
    \/ \E i \in 1..Len(inflight) :
          \E record \in RspRecords(inflight[i].req) :
             /\ inflight[i].req = "UserLogin" => record[1].SessionID = 1
             /\ record = <<>> => LoginRecords(inflight[i].req) = {}
             /\ GwLoginRsp(i, record, <<>>, TRUE, 1, 0)
    \/ MarketFrontConnected(0)
    \/ MarketFrontDisconnected
    \/ \E rspInfo \in RspInfos, syms \in SymbolLists :
          /\ rspInfo # <<>> => rspInfo[1].ErrorID = 1
          /\ Len(syms) = 1
          /\ MarketRspUserLogin(rspInfo, syms, 0, 1)

SpecStart == InitSpecStart /\ [][NextStart]_vars

\* ------------------------------------------- the market login, again and again

\* What a market request returns: accepted while the market is logged in,
\* refused while it is not.
MdRetvalNow == IF marketLink = "in" THEN 0 ELSE -1

\* The Broker is started and both fronts log in; a tick receiver subscribes and
\* unsubscribes on the open market, the market front loses its connection and
\* logs in again.
NextRelogin ==
    \/ BrokerStart
    \/ FrontConnected(0)
    \/ \E i \in 1..Len(inflight) :
          \E record \in RspRecords(inflight[i].req) :
             /\ inflight[i].req = "UserLogin" => record[1].SessionID = 1
             /\ record = <<>> => LoginRecords(inflight[i].req) = {}
             /\ GwLoginRsp(i, record, <<>>, TRUE, 1, 0)
    \/ MarketFrontConnected(0)
    \/ MarketFrontDisconnected
    \/ \E rspInfo \in RspInfos, syms \in SymbolLists :
          /\ rspInfo # <<>> => rspInfo[1].ErrorID = 1
          /\ Len(syms) = 1
          /\ MarketRspUserLogin(rspInfo, syms, 0, 1)
    \/ \E syms \in SymbolLists :
          /\ marketApi
          /\ Len(syms) = 1
          /\ Subscribe(syms, "r1", MdRetvalNow)
          /\ UNCHANGED fanVars
    \/ \E syms \in SymbolLists :
          /\ marketApi
          /\ Len(syms) = 1
          /\ Unsubscribe(syms, "r1", MdRetvalNow)
          /\ UNCHANGED fanVars

SpecRelogin == InitSpecStart /\ [][NextRelogin]_vars

\* ------------------------------------------------------- tick delivery

\* Ticks delivered in a run.
MaxFanTicks == 2

\* The array receivers.forEach walks: the one stored in subscribers while it
\* is still stored there; an array removed from subscribers is empty.
FanArray == IF fanout.live /\ MapHas(subscribers, "X") THEN subscribers["X"] ELSE <<>>

\* The depth-data handler on a tick of an instrument with receivers, up to
\* receivers.forEach: the tick is stored, the tape computed, and forEach
\* captures the length of the array.
TickArrives(tick) ==
    /\ fanout.pc = "idle"
    /\ fanout.ticks < MaxFanTicks
    /\ MapHas(subscribers, "X")
    /\ Len(subscribers["X"]) > 0
    /\ MarketTick(tick)
    /\ fanout' = [pc |-> "each", k |-> 1, len |-> Len(subscribers["X"]), live |-> TRUE,
                  at |-> subscribers["X"], tick |-> <<tick>>, pre |-> lastTick,
                  ticks |-> fanout.ticks + 1]
    /\ tickLog' = <<>>

\* One pass of forEach: it ends behind the captured length, skips an index
\* the array no longer has, and otherwise enters onTick of the element there.
ForEachStep ==
    /\ fanout.pc = "each"
    /\ IF fanout.k > fanout.len
       THEN /\ fanout' = [fanout EXCEPT !.pc = "idle"]
            /\ UNCHANGED tickLog
       ELSE IF fanout.k <= Len(FanArray)
            THEN /\ tickLog' = Append(tickLog, [receiver |-> FanArray[fanout.k],
                                                tick |-> fanout.tick, tape |-> tape,
                                                held |-> lastTick])
                 /\ fanout' = [fanout EXCEPT !.pc = "inside"]
            ELSE /\ fanout' = [fanout EXCEPT !.k = @ + 1]
                 /\ UNCHANGED tickLog
    /\ UNCHANGED <<ordVars, mktVars, rateVars, loginVars, reqVars, brkVars, barVars, retryVars,
                   detVars, dayVars>>

\* onTick returns without having called the market.
OnTickReturns ==
    /\ fanout.pc = "inside"
    /\ fanout' = [fanout EXCEPT !.pc = "each", !.k = @ + 1]
    /\ UNCHANGED tickLog
    /\ UNCHANGED <<ordVars, mktVars, rateVars, loginVars, reqVars, brkVars, barVars, retryVars,
                   detVars, dayVars>>

\* forEach after a call of the market made inside onTick has returned.
FanoutAfterCall ==
    /\ fanout' = [fanout EXCEPT !.pc = "each", !.k = @ + 1,
                                !.live = @ /\ MapHas(subscribers', "X")]
    /\ UNCHANGED tickLog

\* onTick subscribes receiver (the one called or another) and returns.
OnTickSubscribes(receiver, retval) ==
    /\ fanout.pc = "inside"
    /\ Subscribe(<<MkSymbol("X", "DCE")>>, receiver, retval)
    /\ FanoutAfterCall

\* onTick unsubscribes receiver (the one called or another) and returns.
OnTickUnsubscribes(receiver, retval) ==
    /\ fanout.pc = "inside"
    /\ Unsubscribe(<<MkSymbol("X", "DCE")>>, receiver, retval)
    /\ FanoutAfterCall

\* Receivers subscribe and unsubscribe between ticks and inside onTick;
\* ticks of the instrument arrive while it has receivers.
NextDeliver ==
    \/ \E receiver \in TickReceivers :
          /\ fanout.pc = "idle"
          /\ Subscribe(<<MkSymbol("X", "DCE")>>, receiver, 0)
          /\ UNCHANGED fanVars
    \/ \E receiver \in TickReceivers :
          /\ fanout.pc = "idle"
          /\ Unsubscribe(<<MkSymbol("X", "DCE")>>, receiver, 0)
          /\ UNCHANGED fanVars
    \/ \E tick \in TapeTicks :
          /\ tick.openInterest = 1 /\ tick.lastPrice = 2 /\ tick.volume > 0
          /\ tick.orderBook.asks.price = <<>> /\ tick.orderBook.bids.price = <<>>
          /\ TickArrives(tick)
    \/ ForEachStep
    \/ OnTickReturns
    \/ \E receiver \in TickReceivers : OnTickSubscribes(receiver, 0)
    \/ \E receiver \in TickReceivers : OnTickUnsubscribes(receiver, 0)

\* A market without recorder and without subscriptions.
InitSpecDeliver == InitSpecMarket /\ recorder = FALSE

SpecDeliver == InitSpecDeliver /\ [][NextDeliver]_vars

\* ------------------------------------------ caches across logins and days

\* Market.open(lifecycle) called on a Market of its own.
MarketOpenCall ==
    /\ MarketOpen
    /\ UNCHANGED <<strategies, placeOrderRiskManagers, cancelOrderRiskManagers,
                   traderLifecycle, marketLogins, starts, brokerCall, brokerLog>>
    /\ UNCHANGED <<ordVars, mktVars, rateVars, loginVars, reqVars, barVars, retryVars, detVars,
                   dayVars, fanVars>>

\* A logged-in trader fills its caches (rates asked one at a time and
\* answered, one market order priced from a tick of the day without bands), the market
\* is opened, logs in and caches ticks; each front loses its connection and
\* logs in again, on the same trading day or on the next; the trader's queries
\* at login find the instrument and nothing else.
NextDay ==
    \/ \E kind \in RateKinds :
          /\ rateInflight = <<>>
          /\ QueryRate(kind, MkSymbol("X", "DCE"), "r1", 0)
    \/ \E rate \in RateRecords :
          /\ rate # <<>> /\ rate[1].Ratio = 1
          /\ GwRspRate(rate, <<>>)
    \/ \E tick \in FastTicks :
          /\ tick # <<>>
          /\ tick[1].tradingDay = tradingDay
          /\ ~IsValidPrice(tick[1].bandings.upper)
          /\ callLog = <<>>
          /\ PlaceOrderCall(MkSymbol("X", "DCE"), "open", "long", 1, 100, "market", tick, 0)
          /\ UNCHANGED <<brkVars, barVars, retryVars, detVars, dayVars, fanVars>>
    \/ \E tick \in TapeTicks :
          /\ tick.openInterest = 1 /\ tick.volume = 1 /\ tick.lastPrice = 2
          /\ tick.orderBook.asks.price = <<>> /\ tick.orderBook.bids.price = <<>>
          /\ marketLink = "in"
          /\ MarketTick(tick)
          /\ UNCHANGED fanVars
    \/ FrontDisconnected
    \/ FrontConnected(0)
    \/ \E i \in 1..Len(inflight) :
          \E record \in RspRecords(inflight[i].req), day \in DaysFor(inflight[i].req) :
             /\ inflight[i].req = "UserLogin" => record[1].SessionID = 1
             /\ inflight[i].req = "QryInstrument" =>
                   record # <<>> /\ record[1].ProductClass = "Futures"
             /\ inflight[i].req \in Queries \ {"QryInstrument"} => record = <<>>
             /\ GwLoginRsp(i, record, <<>>, TRUE, day, 0)
    \/ MarketOpenCall
    \/ MarketFrontConnected(0)
    \/ MarketFrontDisconnected
    \/ \E day \in TradingDays : MarketRspUserLogin(<<>>, <<>>, 0, day)

SpecDay == InitSpecRate /\ [][NextDay]_vars

\* ------------------------------------------------ the tape on its own

\* Ticks of one instrument arrive in any order of content.
NextTape == \E tick \in TapeTicks : MarketTick(tick) /\ UNCHANGED fanVars

InitSpecTape == InitSpecMarket /\ ~recorder

SpecTape == InitSpecTape /\ [][NextTape]_vars

\* --------------------------------------------- the bar generator on its own

MaxBarVolume == 2
MaxBarTickVolume == 2

\* The ticks the generator's instrument shows during two minutes: the book is
\* empty or holds bid 2 and ask 4, the last price is one of the two.
BarTicks ==
    {[symbol |-> MkSymbol("X", "DCE"), date |-> 1, time |-> t,
      preOpenInterest |-> 1, preClose |-> 2, openInterest |-> 1,
      lastPrice |-> p, volume |-> v, amount |-> 2 * v, orderBook |-> ob] :
        t \in {93030, 93100}, p \in BarPrices, v \in 0..MaxBarTickVolume,
        ob \in {b \in OrderBooks :
                  \/ b.asks.price = <<>> /\ b.bids.price = <<>>
                  \/ b.asks.price = <<4>> /\ b.bids.price = <<2>>}}

\* A generator of one-minute bars or of bars of MaxBarVolume, as constructed.
InitSpecBar ==
    /\ InitTrader
    /\ observe = FALSE
    /\ positions = EmptyMap
    /\ InitMarket
    /\ recorder = FALSE
    /\ InitRates
    /\ InitRequests
    /\ InitBroker
    /\ InitTape
    /\ InitGenerator
    /\ InitMerge
    /\ maxVolume \in {0, MaxBarVolume}
    /\ InitRetry
    /\ InitDetails
    /\ InitDay
    /\ InitFanout
    /\ InitLoggedIn

\* Bar receivers come and go; the gateway's ticks carry the day's volume so
\* far and the time, neither of which goes back.
NextBar ==
    \/ \E receiver \in BarReceivers : AddBarReceiver(receiver)
    \/ \E receiver \in BarReceivers : RemoveBarReceiver(receiver)
    \/ \E tick \in BarTicks :
          /\ lastTick # <<>> =>
                tick.volume >= lastTick[1].volume /\ tick.time >= lastTick[1].time
          /\ GeneratorTick(tick)

SpecBar == InitSpecBar /\ [][NextBar]_vars

\* ------------------------------------------------ merging bars on its own

MaxBars == 2

\* The per-price volumes a bar may hold on one side.
PriceVolumes ==
    {EmptyMap, MapSet(EmptyMap, 2, 1), MapSet(EmptyMap, 4, 2),
     MapSet(MapSet(EmptyMap, 2, 1), 4, 1)}

RECURSIVE SumMap(_)
SumMap(m) ==
    IF DOMAIN m = {} THEN 0
    ELSE LET k == MinOf(DOMAIN m) IN m[k] + SumMap(MapDelete(m, k))

\* A bar as a generator leaves it: volume is the sided volume and what traded
\* without a direction, delta is buy minus sell, high and low span the prices.
BarOf(open, close, poc, buy, sell, unsided) ==
    [symbol |-> MkSymbol("X", "DCE"), date |-> 1, time |-> 93000, openInterest |-> 1,
     openPrice |-> open, highPrice |-> 4, lowPrice |-> 2, closePrice |-> close,
     volume |-> SumMap(buy) + SumMap(sell) + unsided,
     amount |-> 2 * (SumMap(buy) + SumMap(sell) + unsided),
     delta |-> SumMap(buy) - SumMap(sell), poc |-> poc,
     buyVolumes |-> buy, sellVolumes |-> sell]

\* The bars over the given prices whose poc is a price of greatest volume.
BarDatas(prices) ==
    {b \in {BarOf(open, close, poc, buy, sell, unsided) :
               open \in prices, close \in prices, poc \in prices, buy \in PriceVolumes,
               sell \in {v \in PriceVolumes : DOMAIN v # {2, 4}}, unsided \in {0, 1}} :
        \A price \in prices : GetBarVolume(b, b.poc) >= GetBarVolume(b, price)}

\* The lists of up to maxLen bars.
BarLists(maxLen) == UNION {[1..n -> BarDatas(BarPrices)] : n \in 1..maxLen}

\* mergeBarData is called once on some list of bars.
NextMerge == \E list \in BarLists(MaxBars) : ~merged.done /\ MergeBars(list)

SpecMerge == InitSpecTape /\ [][NextMerge]_vars

\* --------------------------------------------- the retry helper on its own

\* Requests are made through _withRetry and the gateway returns what it
\* likes; a timer that was set fires, and a call that woke goes on.
NextRetry ==
    \/ \E c \in RetryCalls, retval \in RetCodes : WithRetryAttempt(c, retval)
    \/ \E c \in RetryCalls : WithRetryWake(c)

SpecRetry ==
    /\ InitSpecTape
    /\ [][NextRetry]_vars
    /\ \A c \in RetryCalls :
          /\ WF_vars(WithRetryWake(c))
          /\ WF_vars(\E retval \in RetCodes : WithRetryAttempt(c, retval))

\* ------------------------------------------------------------------ claims

\* C1: starting from a position whose fields are all >= 0, after any sequence
\* of open, close and close-today fills of any side and positive volume,
\* every today/history x long/short position and frozen field and both
\* pending fields of the symbol are >= 0.
C1_FillsKeepPositionNonNegative ==
    \A symbol \in DOMAIN positions : NonNegativeRow(positions[symbol])

\* C1 witness: open fills have raised today's long position to the cap from a
\* start of at most MaxInitPos, and a pending of the start was used up.
C1_Witness ==
    /\ MapHas(positions, MkSymbol("X", "DCE"))
    /\ positions[MkSymbol("X", "DCE")].today.long.position = MaxPosition
    /\ positions[MkSymbol("X", "DCE")].pending.long = 0
    /\ positions[MkSymbol("X", "DCE")].history.short.position = 0
    /\ positions[MkSymbol("X", "DCE")].today.short.frozen = MaxInitPos

\* The snapshots queryOrders returns in this state (and the RtnOrder and
\* RtnTrade handlers hand to receivers): _toOrderData of every stored order.
OrderSnapshots == {ToOrderData(trades, orders[id]) : id \in DOMAIN orders}

\* C2: in every order snapshot handed to a receiver or returned by
\* queryOrders, traded is the sum of the volumes of the trades attached to the
\* order id, and status = filled implies traded = volume.
C2_SnapshotTradedConsistent ==
    \A d \in OrderSnapshots :
        /\ d.traded = SumSeq([i \in 1..Len(d.trades) |-> d.trades[i].volume])
        /\ d.status = "filled" => d.traded = d.volume

\* No placement awaits its result and the gateway has nothing left to notify:
\* every accepted order was reported and every matched volume was sent as trades.
Quiescent ==
    /\ sleeping = <<>>
    /\ \A o \in 1..Len(gw) : gw[o].OrderStatus # "None" /\ gw[o].sent = gw[o].matched

\* C3: in every quiescent state, for every symbol, places >= entrusts and
\* entrusts >= filleds + cancels + rejects.
C3_StatisticOrdering ==
    Quiescent =>
        \A symbol \in DOMAIN orderStatistics :
            LET st == orderStatistics[symbol]
            IN /\ st.places >= st.entrusts
               /\ st.entrusts >= st.filleds + st.cancels + st.rejects

\* C6: an open order of volume v that was submitted (once), partially filled
\* for 0 < k < v and then canceled leaves pending[side] at its value before
\* the submission (0 after login), the order being the only one of the day.
C6_PendingRestoredAfterCancel ==
    \A d \in OrderSnapshots :
        ( /\ Cardinality(DOMAIN orders) = 1
          /\ MapHas(orderStatistics, d.symbol)
          /\ orderStatistics[d.symbol].entrusts = 1
          /\ d.offset = "open"
          /\ d.status = "canceled"
          /\ d.traded > 0 /\ d.traded < d.volume )
        => positions[d.symbol].pending[d.side] = 0

\* Every close or close-today order the gateway accepted has been reported
\* and has ended: filled with all its trades in, canceled or rejected.
NoLiveCloseOrder ==
    /\ \A o \in 1..Len(gw) :
          gw[o].CombOffsetFlag # "Open" =>
              gw[o].OrderStatus # "None" /\ gw[o].sent = gw[o].matched
    /\ \A d \in OrderSnapshots :
          d.offset # "open" =>
              \/ d.status = "filled" /\ d.traded = d.volume
              \/ d.status \in {"canceled", "rejected"}

\* C7: whenever no close or close-today order is live, the four frozen fields
\* of every position are 0 (also after an order is rejected that had been
\* submitted).
C7_NothingFrozenWithoutLiveCloseOrder ==
    NoLiveCloseOrder =>
        \A symbol \in DOMAIN positions :
            \A d \in {"today", "history"} : \A s \in Sides :
                positions[symbol][d][s].frozen = 0

\* Every (symbol, receiver) pair was subscribed and later unsubscribed the
\* same number of times.
Balanced == ordered /\ \A pr \in DOMAIN balance : balance[pr] = 0

\* C4: with no recorder, once the subscribe and unsubscribe calls balance per
\* (symbol, receiver) (no request refused by the gateway, none still waiting
\* to be retried), the set of instrumentIds subscribed on the network and the
\* subscribers map are both empty again.
C4_BalancedCallsRestoreEmpty ==
    (~recorder /\ ~mdFailed /\ mdSleeping = <<>> /\ Balanced) =>
        (wire = {} /\ subscribers = EmptyMap)

\* C5: per instrumentId the network subscribes and unsubscribes alternate,
\* starting with a subscribe (no request being refused by the gateway): at
\* every moment an instrumentId was sent in subscribeMarketData as often as
\* in unsubscribeMarketData, or once more.
C5_WireAlternates ==
    ~mdFailed =>
        \A i \in InstrumentIds : wireSubs[i] - wireUnsubs[i] \in {0, 1}

\* Every query call of the kind so far named the same symbol.
SameSymbolAsked(kind) ==
    \A i \in 1..Len(rateAsked[kind]) : rateAsked[kind][i].symbol = rateAsked[kind][1].symbol

\* C10: when every queryMarginRate (queryCommissionRate) call named the same
\* uncached symbol, at most one gateway request is issued and no receiver is
\* called before the response; and when n >= 2 calls were made before a first
\* response that carries the rate, exactly one request was issued in total
\* and the receivers were called once each, in call order, with that rate.
C10_RateQueriesCoalesce ==
    \A kind \in RateKinds :
        LET asked == rateAsked[kind]
            first == rateFirst[kind]
        IN SameSymbolAsked(kind) =>
              /\ first = <<>> => (rateSent[kind] <= 1 /\ rateLog[kind] = <<>>)
              /\ (first # <<>> /\ first[1].asked >= 2 /\ first[1].rate # <<>>) =>
                    /\ rateSent[kind] = 1
                    /\ Len(rateLog[kind]) = Len(asked)
                    /\ \A i \in 1..Len(asked) :
                          /\ rateLog[kind][i].receiver = asked[i].receiver
                          /\ rateLog[kind][i].rate =
                               <<[symbol |-> asked[i].symbol,
                                  ratio |-> first[1].rate[1].Ratio]>>

\* C10 witness: two margin-rate calls for the same symbol by r1 and r2 were
\* waiting when the first response brought the rate (ratio 2), and both were
\* called.
C10_Witness ==
    /\ SameSymbolAsked("margin")
    /\ rateFirst["margin"] # <<>>
    /\ rateFirst["margin"][1].asked = 2
    /\ rateFirst["margin"][1].rate # <<>>
    /\ rateFirst["margin"][1].rate[1].Ratio = 2
    /\ Len(rateLog["margin"]) = 2
    /\ rateLog["margin"][1].receiver = "r1"
    /\ rateLog["margin"][2].receiver = "r2"
    /\ marginRatesQueue = <<>>

\* s is an initial part of t.
IsPrefix(s, t) == Len(s) <= Len(t) /\ \A i \in 1..Len(s) : s[i] = t[i]

\* C8: onOpen is called at most once per open(), and only after the seven
\* pipeline requests were submitted in the pipeline's order, each one after
\* the previous one was answered to its last response without error.
C8_OnOpenAfterPipelineOnce ==
    /\ opens <= 1
    /\ IsPrefix(firstSubmitted, Pipeline)
    /\ orderOk
    /\ opens >= 1 =>
          /\ firstSubmitted = Pipeline
          /\ answeredOk = {Pipeline[i] : i \in 1..Len(Pipeline)}

\* C8 witness: after a reconnect the pipeline ran to its end a second time
\* (the last position response was handled without calling onOpen again).
C8_Witness ==
    /\ reconnects = 1
    /\ opens = 1
    /\ lastRsp # <<>>
    /\ lastRsp[1].req = "QryInvestorPosition"
    /\ lastRsp[1].rspInfo = <<>>
    /\ lastRsp[1].isLast
    /\ calls = <<>>

\* C9: a step that handles a pipeline response carrying an error payload
\* calls onError once, with the step's error kind and ErrorID:ErrorMsg, and
\* nothing else; it submits no request, changes no map (nor the session
\* fields) and does not fire onOpen.
C9_ErrorResponseHalts ==
    [][ (lastRsp' # <<>> /\ lastRsp'[1].rspInfo # <<>>) =>
           /\ calls' = <<[to |-> "lifecycle", fn |-> "onError",
                          arg |-> <<ErrorKind(lastRsp'[1].req),
                                    <<lastRsp'[1].rspInfo[1].ErrorID, ":",
                                      lastRsp'[1].rspInfo[1].ErrorMsg>>>>]>>
           /\ loginSleeping' = loginSleeping
           /\ firstSubmitted' = firstSubmitted
           /\ Len(inflight') <= Len(inflight)
           /\ \A i \in 1..Len(inflight') : \E j \in 1..Len(inflight) : inflight'[i] = inflight[j]
           /\ UNCHANGED <<orders, trades, instruments, positions, orderStatistics,
                          marginRates, commRates, placeOrders>>
           /\ UNCHANGED <<tradingDay, frontId, sessionId, orderRef>>
           /\ UNCHANGED <<opens, fired, answeredOk>> ]_vars

\* C9 witness: the order query of a pipeline run after a reconnect was
\* answered with an error while the maps of the first run were loaded.
C9_Witness ==
    /\ lastRsp # <<>>
    /\ lastRsp[1].req = "QryOrder"
    /\ lastRsp[1].rspInfo = <<[ErrorID |-> 2, ErrorMsg |-> "e2"]>>
    /\ calls = <<[to |-> "lifecycle", fn |-> "onError",
                  arg |-> <<"query-order-error", <<2, ":", "e2">>>>]>>
    /\ reconnects = 1
    /\ opens = 1
    /\ instruments # EmptyMap
    /\ positions # EmptyMap
    /\ trades # EmptyMap

\* C11: every run of the rate-queue processing step, from the rate response
\* handler or at the end of the login pipeline, returns: on a head whose
\* instrument is not cached it issues one request and leaves the loop with the
\* entry still at the head.
C11_RateQueueStepReturns == ~hung

\* The result callbacks of the place-order receiver.
PlaceError(reason) == [fn |-> "onPlaceOrderError", arg |-> reason]

\* The depth requests still pending for the trader: asleep in _withRetry or
\* accepted by the gateway and not yet answered.
PendingDepth ==
    Cardinality({req \in gwReqs : req.kind = "depth"})
    + Cardinality({i \in 1..Len(reqSleeping) : reqSleeping[i].kind = "depth"})

\* The orders held by the queue of instrument X (<<>> when there is none).
QueuedX ==
    IF MapHas(marketOrdersQueue, "X") THEN queueHeap[marketOrdersQueue["X"]] ELSE <<>>

\* C12: while the connection was never lost, the market orders of an
\* instrument without cached price limit and usable tick share one depth
\* request (one pending while the instrument has a queue, none otherwise);
\* and a depth response without error finds the order that issued the request
\* and every other queued order once in the queue, sends each to the gateway
\* once as a limit order at the upper price (long) or the lower price (short)
\* of the response, calls onPlaceOrderSent on the receiver of each order the
\* gateway accepts, and removes the queue.
C12_MarketOrdersShareOneDepthQuery ==
    /\ [](reconnects = 0 =>
            PendingDepth = IF MapHas(marketOrdersQueue, "X") THEN 1 ELSE 0)
    /\ [][ (/\ lastStep'.op = "RspQryDepthMarketData"
            /\ lastStep'.arg[1] = <<>>
            /\ reconnects = 0) =>
              LET data == lastStep'.arg[2]
                  queue == QueuedX
                  new == {o \in 1..Len(gw') : o > Len(gw)}
                  slept == {i \in 1..Len(sleeping') : i > Len(sleeping)}
              IN /\ ~MapHas(marketOrdersQueue', "X")
                 /\ \E req \in gwReqs :
                       /\ req.requestId = lastStep'.id
                       /\ \E i \in 1..Len(queue) : queue[i] = req.receiver
                 /\ \A i, j \in 1..Len(queue) : queue[i] = queue[j] => i = j
                 /\ orderRef' = orderRef + Len(queue)
                 /\ \A i \in 1..Len(queue) :
                       LET n == queue[i]
                           sent == {o \in new : gw'[o].receiver = n}
                           wait == {k \in slept : sleeping'[k].receiver = n}
                           price(p) == IF callLog[n].side = "long"
                                       THEN p \in {data.UpperLimitPrice,
                                                   data.BandingUpperPrice}
                                       ELSE p \in {data.LowerLimitPrice,
                                                   data.BandingLowerPrice}
                       IN /\ callLog[n].depth
                          /\ outcomes[n] = <<>>
                          /\ Cardinality(sent) + Cardinality(wait) <= 1
                          /\ \A o \in sent :
                                /\ price(gw'[o].LimitPrice)
                                /\ gw'[o].VolumeTotalOriginal = callLog[n].volume
                                /\ gw'[o].Direction = ToDirection(callLog[n].side)
                                /\ outcomes'[n] =
                                     <<[fn |-> "onPlaceOrderSent",
                                        arg |-> <<frontId, sessionId,
                                                  ParseInt(gw'[o].OrderRef)>>]>>
                          /\ \A k \in wait :
                                /\ price(sleeping'[k].price)
                                /\ outcomes'[n] = <<>>
                          /\ (sent = {} /\ wait = {}) =>
                                outcomes'[n] = <<PlaceError("Request Error")>> ]_vars

\* C12 witness: a long and a short market order waited for one depth
\* response; it came with the bands missing and both orders went out at the
\* daily limits, 120 and 80, and were answered with onPlaceOrderSent.
C12_Witness ==
    /\ lastStep.op = "RspQryDepthMarketData"
    /\ lastStep.arg[1] = <<>>
    /\ reconnects = 0
    /\ Len(callLog) = 2
    /\ callLog[1].depth /\ callLog[2].depth
    /\ callLog[1].side = "long" /\ callLog[2].side = "short"
    /\ Len(gw) = 2
    /\ \E o, q \in 1..2 :
          /\ gw[o].receiver = 1 /\ gw[o].LimitPrice = 120
          /\ gw[q].receiver = 2 /\ gw[q].LimitPrice = 80
    /\ \A n \in 1..2 : Len(outcomes[n]) = 1 /\ outcomes[n][1].fn = "onPlaceOrderSent"
    /\ gwRequestId = 3
    /\ marketOrdersQueue = EmptyMap

\* C13: when the depth request of a market order ends refused at submission,
\* the order that issued it and every order queued behind it get
\* onPlaceOrderError("Request Error") once and no limit order is submitted;
\* and a depth response with an error payload does the same for every
\* queued order.
C13_FailedDepthQueryFailsAllWaiting ==
    [][ /\ \A n \in 1..Len(callLog') :
              (/\ lastStep'.id = n
               /\ lastStep'.op \in {"placeOrder", "retryRequest"}
               /\ callLog'[n].depth
               /\ lastStep'.op = "placeOrder" => ~MapHas(marketOrdersQueue, "X")
               /\ lastStep'.op = "retryRequest" => Head(reqSleeping).kind = "depth"
               /\ \A req \in gwReqs' : ~(req.kind = "depth" /\ req.receiver = n)
               /\ \A i \in 1..Len(reqSleeping') : reqSleeping'[i].receiver # n)
              => /\ outcomes'[n] = <<PlaceError("Request Error")>>
                 /\ gw' = gw /\ sleeping' = sleeping
        /\ (lastStep'.op = "RspQryDepthMarketData" /\ lastStep'.arg[1] # <<>>) =>
              /\ \A i \in 1..Len(QueuedX) :
                    outcomes'[QueuedX[i]] =
                        Append(outcomes[QueuedX[i]], PlaceError("Request Error"))
              /\ gw' = gw /\ sleeping' = sleeping ]_vars

\* Nothing of a market order is pending any more.
Settled ==
    /\ sleeping = <<>>
    /\ reqSleeping = <<>>
    /\ marketOrdersQueue = EmptyMap
    /\ \A req \in gwReqs : req.kind # "depth"

\* C14: a market order that took the depth-query path never gets more than
\* one result callback, and once nothing is pending any more (also after a
\* disconnect) it has got exactly one.
C14_MarketOrderGetsOneOutcome ==
    \A n \in 1..Len(callLog) :
        callLog[n].depth =>
            /\ Len(outcomes[n]) <= 1
            /\ Settled => Len(outcomes[n]) = 1

PlacesOf(smap, symbol) == IF MapHas(smap, symbol) THEN smap[symbol].places ELSE 0

\* C16: a placeOrder call with flag limit is answered, when its submission
\* ends (at once, or on the retry that ends a backpressure wait), by exactly
\* one callback chosen in this order: "Invalid Volume" for volume <= 0, else
\* "Instrument Not Found", else "Exchange Id Error", all three without any
\* gateway request; else "Request Error" when the gateway refuses; else
\* onPlaceOrderSent with the receipt id of the accepted request. The places
\* counter of the symbol grows by one and the request id is correlated with
\* the receiver exactly when onPlaceOrderSent is delivered.
C16_LimitOrderOutcomePrecedence ==
    [][ lastStep'.op \in {"placeOrder", "retryPlace"} =>
          LET n == lastStep'.id
              c == callLog'[n]
              instrumentId == parseSymbol(c.symbol)[1]
              exchangeId == parseSymbol(c.symbol)[2]
              fresh == lastStep'.op = "placeOrder"
              asked == orderRef' # orderRef
              accepted == Len(gw') = Len(gw) + 1
              waits == \E i \in 1..Len(sleeping') : sleeping'[i].receiver = n
              sentCb == [fn |-> "onPlaceOrderSent",
                         arg |-> <<frontId, sessionId, orderRef'>>]
              delivered == outcomes'[n] = <<sentCb>>
              untouched == /\ gw' = gw /\ gwRequestId' = gwRequestId
                           /\ placeOrders' = placeOrders
                           /\ orderStatistics' = orderStatistics
          IN /\ c.flag = "limit"
             /\ outcomes[n] = <<>>
             /\ \A m \in 1..MaxPlaceCalls : m # n => outcomes'[m] = outcomes[m]
             /\ CASE fresh /\ c.volume <= 0 ->
                       /\ outcomes'[n] = <<PlaceError("Invalid Volume")>>
                       /\ ~asked /\ untouched /\ ~waits
                  [] fresh /\ c.volume > 0 /\ ~MapHas(instruments, instrumentId) ->
                       /\ outcomes'[n] = <<PlaceError("Instrument Not Found")>>
                       /\ ~asked /\ untouched /\ ~waits
                  [] fresh /\ c.volume > 0 /\ MapHas(instruments, instrumentId)
                       /\ exchangeId # instruments[instrumentId].ExchangeID ->
                       /\ outcomes'[n] = <<PlaceError("Exchange Id Error")>>
                       /\ ~asked /\ untouched /\ ~waits
                  [] OTHER ->
                       /\ asked
                       /\ \/ /\ accepted /\ ~waits /\ delivered
                             /\ gw'[Len(gw')].receiver = n
                             /\ gwRequestId' = gwRequestId + 1
                          \/ /\ ~accepted /\ waits /\ outcomes'[n] = <<>> /\ untouched
                          \/ /\ ~accepted /\ ~waits /\ untouched
                             /\ outcomes'[n] = <<PlaceError("Request Error")>>
             /\ delivered <=>
                   PlacesOf(orderStatistics', c.symbol) =
                       PlacesOf(orderStatistics, c.symbol) + 1
             /\ delivered <=> placeOrders' = MapSet(placeOrders, gwRequestId', n)
             /\ ~delivered => placeOrders' = placeOrders ]_vars

\* C16 witness: a first placement named the instrument on the wrong exchange
\* and was answered "Exchange Id Error"; a second was held back by the
\* gateway, accepted on its retry and answered onPlaceOrderSent, with one
\* place counted and request 1 correlated.
C16_Witness ==
    /\ lastStep = [op |-> "retryPlace", id |-> 2, arg |-> <<>>]
    /\ callLog[1].symbol = MkSymbol("X", "SHFE") /\ callLog[1].volume = 1
    /\ outcomes[1] = <<PlaceError("Exchange Id Error")>>
    /\ outcomes[2] = <<[fn |-> "onPlaceOrderSent", arg |-> <<1, 1, 2>>]>>
    /\ PlacesOf(orderStatistics, callLog[2].symbol) = 1
    /\ placeOrders = MapSet(EmptyMap, 1, 2)
    /\ Len(gw) = 1

\* The receipt id handed to receiver n by onPlaceOrderSent (<<>> when none).
SentReceipt(n) ==
    IF outcomes[n] # <<>> /\ outcomes[n][1].fn = "onPlaceOrderSent"
    THEN outcomes[n][1].arg ELSE <<>>

C18_CancelOnlyLiveOrders ==
    [][ lastStep'.op = "cancelOrder" =>
          LET n == lastStep'.id
              id == callLog'[n].order[1].id
              known == MapHas(orders, id)
              canceled == known /\ orders[id].CancelTime # <<>>
              accepted == gwRequestId' = gwRequestId + 1
              waits == \E i \in 1..Len(reqSleeping') : reqSleeping'[i].receiver = n
              refused == outcomes'[n] = <<[fn |-> "onCancelOrderError",
                                           arg |-> "Request Error"]>>
              quiet == /\ gwRequestId' = gwRequestId /\ gwReqs' = gwReqs
                       /\ reqSleeping' = reqSleeping /\ cancelOrders' = cancelOrders
          IN CASE ~known ->
                    /\ outcomes'[n] = <<[fn |-> "onCancelOrderError",
                                         arg |-> "Order Not Found"]>>
                    /\ quiet
               [] canceled ->
                    /\ outcomes'[n] = <<[fn |-> "onCancelOrderError",
                                         arg |-> "Already Canceled"]>>
                    /\ quiet
               [] OTHER ->
                    \/ /\ accepted /\ ~waits
                       /\ outcomes'[n] = <<[fn |-> "onCancelOrderSent", arg |-> <<>>]>>
                       /\ cancelOrders' = MapSet(cancelOrders, gwRequestId', n)
                    \/ /\ ~accepted /\ waits /\ outcomes'[n] = <<>>
                       /\ cancelOrders' = cancelOrders
                    \/ /\ ~accepted /\ ~waits /\ refused
                       /\ cancelOrders' = cancelOrders ]_vars

\* C19: Broker.placeOrder consults the place-order risk managers in
\* registration order up to the first that returns false or a string; on
\* such a denial it calls strategy.onRisk("place-order-risk", reason) (the
\* reason only for a string) and then receiver.onPlaceOrderError("Risk
\* Rejected"), consults no later manager and makes no call on the trader;
\* when every manager returns true it calls trader.placeOrder once with the
\* arguments it was given. Broker.cancelOrder does the same with the
\* cancel-order risk managers, "cancel-order-risk" and onCancelOrderError.
C19_RiskChainGatesOrders ==
    [][ brokerLog' # brokerLog =>
          LET place == brokerCall'.kind = "place"
              managers == IF place THEN placeOrderRiskManagers
                          ELSE cancelOrderRiskManagers
              answers == brokerCall'.answers
              denies(i) == answers[managers[i]] # [boolean |-> <<TRUE>>, string |-> <<>>]
              denials == {i \in 1..Len(managers) : denies(i)}
              first == IF denials = {} THEN 0
                       ELSE CHOOSE i \in denials : \A j \in denials : i <= j
              consulted == IF first = 0 THEN Len(managers) ELSE first
              added == SubSeq(brokerLog', Len(brokerLog) + 1, Len(brokerLog'))
              a == brokerCall'.args[1]
          IN /\ brokerCall'.kind \in {"place", "cancel"}
             /\ \A i \in 1..consulted :
                   added[i] = BrokerCalled(managers[i],
                                           IF place THEN "onPlaceOrder" ELSE "onCancelOrder",
                                           <<>>)
             /\ IF first = 0
                THEN /\ Len(added) = consulted + 1
                     /\ added[consulted + 1] =
                          BrokerCalled("trader",
                                       IF place THEN "placeOrder" ELSE "cancelOrder", <<>>)
                     /\ Len(callLog') = Len(callLog) + 1
                     /\ LET c == callLog'[Len(callLog')]
                        IN /\ c.op = IF place THEN "placeOrder" ELSE "cancelOrder"
                           /\ c.symbol = a.symbol /\ c.offset = a.offset
                           /\ c.side = a.side /\ c.volume = a.volume
                           /\ c.price = a.price /\ c.flag = a.flag
                           /\ c.order = a.order
                ELSE /\ Len(added) = consulted + 2
                     /\ added[consulted + 1] =
                          BrokerCalled(brokerCall'.strategy, "onRisk",
                                       <<IF place THEN "place-order-risk"
                                         ELSE "cancel-order-risk">>
                                       \o answers[managers[first]].string)
                     /\ added[consulted + 2] =
                          BrokerCalled("receiver",
                                       IF place THEN "onPlaceOrderError"
                                       ELSE "onCancelOrderError",
                                       <<"Risk Rejected">>)
                     /\ UNCHANGED <<callLog, outcomes, gw, gwRequestId, orderRef,
                                    sleeping, reqSleeping, placeOrders, cancelOrders,
                                    orderStatistics>> ]_vars

\* C19 witness: with two place-order risk managers registered a first order
\* passed both and went to the trader; on a second the first manager
\* returned true and the second the string "too large": onRisk with that
\* reason and then "Risk Rejected" were called, the trader was not.
C19_Witness ==
    /\ Len(placeOrderRiskManagers) = 2
    /\ brokerCall.kind = "place"
    /\ Len(callLog) = 1
    /\ Len(brokerLog) = 7
    /\ brokerCall.answers[placeOrderRiskManagers[1]].boolean = <<TRUE>>
    /\ brokerCall.answers[placeOrderRiskManagers[2]].string = <<"too large">>
    /\ brokerLog[3] = BrokerCalled("trader", "placeOrder", <<>>)
    /\ brokerLog[5].to = placeOrderRiskManagers[2]
    /\ brokerLog[6] = BrokerCalled(brokerCall.strategy, "onRisk",
                                   <<"place-order-risk", "too large">>)
    /\ brokerLog[7] = BrokerCalled("receiver", "onPlaceOrderError", <<"Risk Rejected">>)

\* The calls of brokerLog made on `to` with method fn.
CountCalls(log, to, fn) ==
    Cardinality({i \in 1..Len(log) : log[i].to = to /\ log[i].fn = fn})

\* The calls a step adds to brokerLog.
AddedCalls == SubSeq(brokerLog', Len(brokerLog) + 1, Len(brokerLog'))

MarketLoggedIn == marketLink = "asked" /\ marketLink' = "in"

\* C21: on every successful market login, the first and each re-login, every
\* instrument that is recorded or has a tick subscriber is sent in a
\* subscribeMarketData request, no other instrument is, and onOpen (onInit of
\* the strategies) fires on the first login of an open only.
C21_LoginResubscribesUnion ==
    [][MarketLoggedIn =>
         /\ \A i \in recordings \cup DOMAIN subscribers : wireSubs'[i] = wireSubs[i] + 1
         /\ \A i \in InstrumentIds \ (recordings' \cup DOMAIN subscribers) :
               wireSubs'[i] = wireSubs[i]
         /\ marketFired => brokerLog' = brokerLog]_vars

\* The volume and open-interest deltas the two ticks of the last tape give.
VolumeDeltaOf(t, pre) == IF pre # <<>> THEN t.volume - pre[1].volume ELSE t.volume

InterestDeltaOf(t, pre) ==
    IF pre # <<>> THEN t.openInterest - pre[1].openInterest
    ELSE t.openInterest - t.preOpenInterest

\* C22: the tape's volumeDelta and interestDelta are the differences to the
\* previous tick, or the tick's volume and openInterest - preOpenInterest
\* without one; its type is dual-open, open, dual-close, close, turnover or
\* no-deal exactly in the case the deltas name.
C22_TapeTypeByDeltas ==
    tape # <<>> =>
        LET vd == VolumeDeltaOf(tapeOf.tick[1], tapeOf.preTick)
            id == InterestDeltaOf(tapeOf.tick[1], tapeOf.preTick)
            type == tape[1].type
        IN /\ tape[1].volumeDelta = vd
           /\ tape[1].interestDelta = id
           /\ type \in {"dual-open", "open", "dual-close", "close", "turnover", "no-deal"}
           /\ (type = "dual-open") <=> (id > 0 /\ vd = id)
           /\ (type = "open") <=> (id > 0 /\ vd # id)
           /\ (type = "dual-close") <=> (id < 0 /\ vd + id = 0)
           /\ (type = "close") <=> (id < 0 /\ vd + id # 0)
           /\ (type = "turnover") <=> (id = 0 /\ vd > 0)
           /\ (type = "no-deal") <=> (id = 0 /\ vd <= 0)
           /\ tape[1] = CalcTapeData(tapeOf.tick[1], tapeOf.preTick)

\* A tape against a previous tick in which as much volume traded as open
\* interest was closed.
C22_Witness ==
    /\ tape # <<>>
    /\ tapeOf.preTick # <<>>
    /\ tape[1].type = "dual-close"
    /\ tape[1].volumeDelta = 1

\* A side of the order book shows a first level.
Present(prices) == Len(prices) > 0

\* The direction by the first matching rule, a rule on an absent level never
\* matching.
DirectionByRules(t, pre) ==
    LET last == t.lastPrice
        asks == t.orderBook.asks.price
        bids == t.orderBook.bids.price
    IN IF pre # <<>>
       THEN LET preAsks == pre[1].orderBook.asks.price
                preBids == pre[1].orderBook.bids.price
            IN IF Present(preAsks) /\ last >= preAsks[1] THEN "up"
               ELSE IF Present(preBids) /\ last <= preBids[1] THEN "down"
               ELSE IF Present(asks) /\ last >= asks[1] THEN "up"
               ELSE IF Present(bids) /\ last <= bids[1] THEN "down"
               ELSE IF last > pre[1].lastPrice THEN "up"
               ELSE IF last < pre[1].lastPrice THEN "down"
               ELSE IF Present(bids) /\ Present(preAsks) /\ bids[1] >= preAsks[1] THEN "up"
               ELSE IF Present(asks) /\ Present(preBids) /\ asks[1] <= preBids[1] THEN "down"
               ELSE "none"
       ELSE IF Present(asks) /\ last >= asks[1] THEN "up"
            ELSE IF Present(bids) /\ last <= bids[1] THEN "down"
            ELSE IF last > t.preClose THEN "up"
            ELSE IF last < t.preClose THEN "down"
            ELSE "none"

\* C23: the tape's direction is the one of the first matching rule of the
\* list (previous ask, previous bid, current ask, current bid, previous last,
\* crossed books, none; without a previous tick current ask, current bid,
\* preClose), and a rule on an absent ask or bid level never decides it.
C23_DirectionByFirstRule ==
    tape # <<>> => tape[1].direction = DirectionByRules(tapeOf.tick[1], tapeOf.preTick)

\* The sum of one field over a list of bars.
RECURSIVE SumBars(_, _)
SumBars(list, field) ==
    IF list = <<>> THEN 0 ELSE Head(list)[field] + SumBars(Tail(list), field)

RECURSIVE SumBuyAt(_, _)
SumBuyAt(list, price) ==
    IF list = <<>> THEN 0 ELSE GetBarBuyVolume(Head(list), price) + SumBuyAt(Tail(list), price)

RECURSIVE SumSellAt(_, _)
SumSellAt(list, price) ==
    IF list = <<>> THEN 0
    ELSE GetBarSellVolume(Head(list), price) + SumSellAt(Tail(list), price)

\* C24: mergeBarData of a one-element list returns a bar equal to its element,
\* and of any non-empty list a bar whose volume, amount, delta and per-price
\* buy and sell volumes are the sums over the list, whose open is the first
\* bar's and whose close and openInterest are the last bar's.
C24_MergeRoundTripAdditive ==
    merged.done =>
        /\ merged.bar # <<>>
        /\ Len(bars) = 1 => merged.bar[1] = bars[1]
        /\ merged.bar[1].volume = SumBars(bars, "volume")
        /\ merged.bar[1].amount = SumBars(bars, "amount")
        /\ merged.bar[1].delta = SumBars(bars, "delta")
        /\ \A price \in BarPrices :
              /\ GetBarBuyVolume(merged.bar[1], price) = SumBuyAt(bars, price)
              /\ GetBarSellVolume(merged.bar[1], price) = SumSellAt(bars, price)
        /\ merged.bar[1].openPrice = bars[1].openPrice
        /\ merged.bar[1].closePrice = bars[Len(bars)].closePrice
        /\ merged.bar[1].openInterest = bars[Len(bars)].openInterest

\* The bar's volume is what its two sides hold, and its delta their difference.
VolumeSided(b) ==
    /\ b.volume = SumMap(b.buyVolumes) + SumMap(b.sellVolumes)
    /\ b.delta = SumMap(b.buyVolumes) - SumMap(b.sellVolumes)

\* C25: the bar the generator holds and every bar it passed to onBar or
\* onUpdateBar has volume = sum of buyVolumes + sum of sellVolumes and
\* delta = sum of buyVolumes - sum of sellVolumes, whatever the directions
\* (up, down, none) of the ticks' tapes were.
C25_BarVolumeIsSidedVolume ==
    /\ bar # <<>> => VolumeSided(bar[1])
    /\ \A i \in 1..Len(barLog) : VolumeSided(barLog[i].bar)

\* What _withRetry does on each return value: it sleeps and invokes the
\* request again only after -2 or -3, resolves to the gateway's request id on
\* 0 and to the returned value otherwise, and a resolved call stays resolved.
RetryStepsAsCoded ==
    [][\A c \in RetryCalls :
         /\ retry'[c].pc = "sleeping" => retry'[c].retval \in {<<-2>>, <<-3>>}
         /\ (retry[c].pc # "done" /\ retry'[c].pc = "done") =>
               \/ retry'[c].retval = <<0>> /\ retry'[c].result = <<lastRequestId'>>
               \/ /\ retry'[c].retval \notin {<<0>>, <<-2>>, <<-3>>}
                  /\ retry'[c].result = retry'[c].retval
         /\ retry[c].pc = "done" => retry'[c] = retry[c]]_vars

\* C26: every call of _withRetry completes after a bounded number of
\* attempts: a call that has invoked its request is resolved in the end.
C26_RetryCompletes ==
    \A c \in RetryCalls : (retry[c].pc # "idle") ~> (retry[c].pc = "done")

\* The callbacks the status of a delivered notification prescribes, to
\* every receiver in registration order.
PrescribedCalls(order) ==
    LET status == CalcOrderStatus(order, 0)
        fn == CASE status = "submitted" -> "onEntrust"
                [] status = "canceled" -> "onCancel"
                [] status = "rejected" -> "onReject"
                [] OTHER -> ""
    IN IF fn = "" THEN <<>>
       ELSE ForEachReceiver(receivers, fn, ToOrderData(trades, order))

\* C27: an RtnOrder equal in OrderSubmitStatus and OrderStatus to the order
\* stored under its id changes neither orders, positions, statistics nor
\* trades and calls no receiver; any other RtnOrder replaces the stored
\* order and its callbacks are made in the very step the gateway sent it.
C27_DuplicateIgnoredElseDelivered ==
    [][\A o \in 1..Len(gw), st \in OrderStatuses, sub \in SubmitStatuses,
          m \in 0..MaxVolume :
          GwRtnOrder(o, st, sub, m) =>
             LET order == GwOrderField(o, st, sub)
                 orderId == CalcOrderId(order)
                 same == /\ MapHas(orders, orderId)
                         /\ orders[orderId].OrderSubmitStatus = sub
                         /\ orders[orderId].OrderStatus = st
             IN IF same
                THEN /\ UNCHANGED <<orders, positions, orderStatistics, trades>>
                     /\ calls' = <<>>
                ELSE /\ MapHas(orders', orderId)
                     /\ orders'[orderId] = order
                     /\ \A id \in DOMAIN orders \ {orderId} : orders'[id] = orders[id]
                     /\ calls' = PrescribedCalls(order)]_vars

\* A notification that differs from the stored order in OrderSubmitStatus
\* alone was delivered: the order is stored and onEntrust was called.
C27_Witness ==
    /\ observe
    /\ \E id \in DOMAIN orders :
          /\ orders[id].OrderStatus = "Unknown"
          /\ orders[id].OrderSubmitStatus = "Accepted"
          /\ calls # <<>>
          /\ calls[1].fn = "onEntrust"
          /\ calls[1].arg.id = id

\* The orders stored for a symbol whose offset is among offs.
StoredOrders(sym, offs) ==
    {id \in DOMAIN orders :
        /\ MkSymbol(orders[id].InstrumentID, orders[id].ExchangeID) = sym
        /\ CalcOffsetType(orders[id].CombOffsetFlag) \in offs}

RECURSIVE SumOriginal(_)
SumOriginal(ids) ==
    IF ids = {} THEN 0
    ELSE LET id == CHOOSE x \in ids : TRUE
         IN orders[id].VolumeTotalOriginal + SumOriginal(ids \ {id})

\* C28: the side effects of entering submitted happen at most once per
\* order: a symbol's entrusts never exceed the number of its orders, its
\* pending never exceeds the volume of its open orders and its frozen never
\* exceeds the volume of its closing orders.
C28_SubmittedAtMostOnce ==
    /\ \A sym \in DOMAIN orderStatistics :
          orderStatistics[sym].entrusts <= Cardinality(StoredOrders(sym, Offsets))
    /\ \A sym \in DOMAIN positions :
          /\ positions[sym].pending.long + positions[sym].pending.short
                <= SumOriginal(StoredOrders(sym, {"open"}))
          /\ positions[sym].today.long.frozen + positions[sym].today.short.frozen
                + positions[sym].history.long.frozen + positions[sym].history.short.frozen
                <= SumOriginal(StoredOrders(sym, {"close", "close-today"}))

\* The status the rules give a raw order whose trades sum to traded.
StatusByRules(order, traded) ==
    IF order.OrderStatus = "Unknown" THEN {"submitted"}
    ELSE IF order.OrderStatus = "AllTraded" THEN {"filled"}
    ELSE IF order.OrderStatus = "Canceled"
    THEN (IF order.OrderSubmitStatus \in {"InsertRejected", "CancelRejected", "ModifyRejected"}
          THEN {"rejected"} ELSE {"canceled"})
    ELSE (IF traded = order.VolumeTotalOriginal THEN {"filled"} ELSE {"partially-filled"})

ReferenceRow(p, side, offset, v) ==
    LET opp == Opposite(side)
        fromHistory(fld) == MathMin(v, p.history[opp][fld])
    IN CASE offset = "open" ->
              [p EXCEPT !.today[side].position = @ + v,
                        !.pending[side] = MathMax(0, @ - v)]
         [] offset = "close" ->
              [p EXCEPT !.history[opp].position = @ - fromHistory("position"),
                        !.today[opp].position = @ - MathMin(v - fromHistory("position"), @),
                        !.history[opp].frozen = @ - fromHistory("frozen"),
                        !.today[opp].frozen = @ - MathMin(v - fromHistory("frozen"), @)]
         [] offset = "close-today" ->
              [p EXCEPT !.today[opp].position = MathMax(0, @ - v),
                        !.today[opp].frozen = MathMax(0, @ - v)]

\* C30: every fill leaves the row of its symbol as the reference accounting
\* gives it, for every side, offset, volume and row before the fill (a
\* missing row counts as all zeros), and leaves the other rows alone.
C30_CalcPositionIsReference ==
    [][\A side \in Sides, offset \in Offsets, volume \in 1..MaxVolume :
          Fill(MkSymbol("X", "DCE"), side, offset, volume) =>
             /\ positions'[MkSymbol("X", "DCE")] =
                   ReferenceRow(EnsurePositionInfo(positions, MkSymbol("X", "DCE"))
                                   [MkSymbol("X", "DCE")], side, offset, volume)
             /\ DOMAIN positions' = DOMAIN positions \cup {MkSymbol("X", "DCE")}]_vars

\* Fills have acted on both sides: today's positions are above every initial
\* value, long at the cap, with the long history and frozen fields at zero.
C30_Witness ==
    /\ MapHas(positions, MkSymbol("X", "DCE"))
    /\ positions[MkSymbol("X", "DCE")].today.long.position = MaxPosition
    /\ positions[MkSymbol("X", "DCE")].today.short.position = MaxInitPos + 1
    /\ positions[MkSymbol("X", "DCE")].history.long.position = 0
    /\ positions[MkSymbol("X", "DCE")].history.long.frozen = 0
    /\ positions[MkSymbol("X", "DCE")].today.long.frozen = 0

\* The row of a symbol after the frozen field a closing order of the given
\* side and offset acts on (history for close, today for close-today, of the
\* opposite side) is set to what f makes of it.
WithFrozen(row, side, offset, f(_)) ==
    LET opp == IF side = "long" THEN "short" ELSE "long"
    IN IF offset = "close"
       THEN [row EXCEPT !.history[opp].frozen = f(@)]
       ELSE [row EXCEPT !.today[opp].frozen = f(@)]

\* A notification of a closing order that is not a repetition: submitted
\* adds the order's volume to that one field, canceled takes it off, floored
\* at 0, and nothing else of the positions changes.
FreezeStep(order) ==
    LET sym == MkSymbol(order.InstrumentID, order.ExchangeID)
        side == CalcSideType(order.Direction)
        offset == CalcOffsetType(order.CombOffsetFlag)
        v == order.VolumeTotalOriginal
        status == ToOrderData(trades, order).status
        Add(x) == x + v
        Sub(x) == IF x - v > 0 THEN x - v ELSE 0
    IN (/\ MapHas(positions, sym)
        /\ offset \in {"close", "close-today"}
        /\ ~(/\ MapHas(orders, CalcOrderId(order))
             /\ orders[CalcOrderId(order)].OrderStatus = order.OrderStatus
             /\ orders[CalcOrderId(order)].OrderSubmitStatus = order.OrderSubmitStatus))
       => /\ status = "submitted" =>
               positions' = [positions EXCEPT
                                ![sym] = WithFrozen(positions[sym], side, offset, Add)]
          /\ status = "canceled" =>
               positions' = [positions EXCEPT
                                ![sym] = WithFrozen(positions[sym], side, offset, Sub)]

\* Scenario S3: an open-long order of volume 3 is filled, then a close-today
\* order of volume 2 against the long position is notified submitted once
\* (today.long.frozen = 2) and filled (today.long.position = 1, frozen 0).
ScenarioS3 ==
    (/\ Len(gw) = 2
     /\ gw[1].CombOffsetFlag = "Open" /\ gw[1].Direction = ToDirection("long")
     /\ gw[1].VolumeTotalOriginal = 3 /\ gw[1].OrderStatus = "AllTraded"
     /\ gw[2].CombOffsetFlag = "CloseToday" /\ gw[2].Direction = ToDirection("short")
     /\ gw[2].VolumeTotalOriginal = 2
     /\ MapHas(orders, <<"DCE", "T", 1>>)
     /\ Len(TradesOf(trades, <<"DCE", "T", 1>>)) >= 1
     /\ MapHas(orderStatistics, MkSymbol("X", "DCE"))
     /\ orderStatistics[MkSymbol("X", "DCE")].entrusts = 2)
    => LET row == positions[MkSymbol("X", "DCE")]
       IN /\ row.today.long.position = 3 - gw[2].sent
          /\ gw[2].OrderStatus = "Unknown" => row.today.long.frozen = 2
          /\ (gw[2].OrderStatus = "AllTraded" /\ gw[2].sent = 2) =>
                row.today.long.position = 1 /\ row.today.long.frozen = 0

C32_FrozenWithinPosition ==
    \A sym \in DOMAIN positions :
       \A d \in {"today", "history"} : \A side \in Sides :
          positions[sym][d][side].frozen <= positions[sym][d][side].position

\* The answers given to receivers of queryPositionDetails so far.
DetailAnswers == {i \in 1..Len(pdLog) : pdLog[i].fn = "onPositionDetails"}

\* Every call of queryPositionDetails is waiting in the queue or was answered
\* once, and the gateway holds at most one request of the trader.
DetailBatches ==
    /\ Cardinality(DetailAnswers) + Len(positionDetailsQueue) = pdCalls
    /\ pdInflight <= 1

\* C33: a position-details query is answered from the cache only if no
\* RtnTrade was handled since the request behind the cached snapshot was
\* issued; receivers calling while a batch is in flight wait for it and are
\* answered once, with one gateway request per batch.
C33_CacheOnlyWithoutTradeSince ==
    /\ \A i \in DetailAnswers : pdLog[i].source = "cache" => ~pdLog[i].tradeSince
    /\ DetailBatches

\* C34: when the gateway answers every rate request it accepted, every
\* receiver passed to queryMarginRate or queryCommissionRate is called in the
\* end, also behind a response with an error payload or without a record:
\* the n-th call of a kind leads to the n-th callback of that kind.
C34_EveryRateReceiverCalled ==
    \A kind \in RateKinds : \A n \in 1..MaxRateCalls :
       (Len(rateAsked[kind]) >= n) ~> (Len(rateLog[kind]) >= n)

\* Both circuit-breaker bands are present.
BothBandsValid(bandings) ==
    /\ bandings.upper \notin {0, MaxValue}
    /\ bandings.lower \notin {0, MaxValue}

\* The limit orders this step hands to the gateway, as <<call, price>>.
NewOrders ==
    {<<gw'[o].receiver, gw'[o].LimitPrice>> : o \in {q \in 1..Len(gw') : q > Len(gw)}} \cup
    {<<sleeping'[k].receiver, sleeping'[k].price>> :
        k \in {q \in 1..Len(sleeping') : q > Len(sleeping)}}

\* Each of them is priced at the upper end of the range when its call buys
\* and at the lower end when it sells.
PricedBy(range) ==
    \A x \in NewOrders :
       x[2] = IF callLog'[x[1]].side = "long" THEN range.upper ELSE range.lower

\* Bounds taken from a tick or a depth response: the bands are used and
\* priceLimit is left alone when both are valid, else the daily limits are
\* used and stored.
BoundsTaken(limits, bandings) ==
    IF BothBandsValid(bandings)
    THEN PricedBy(bandings) /\ priceLimit' = priceLimit
    ELSE PricedBy(limits) /\ priceLimit' = MapSet(priceLimit, "X", limits)

TraderLogsIn ==
    /\ inflight # <<>> /\ Head(inflight).req = "UserLogin"
    /\ inflight' # inflight /\ reconnects' = reconnects
    /\ lastRsp' # <<>> /\ lastRsp'[1].req = "UserLogin" /\ lastRsp'[1].rspInfo = <<>>

\* The market handles an error-free RspUserLogin in this step.
MarketLogsIn == marketLink = "asked" /\ marketLink' = "in"

\* C36: an error-free login of the trader empties marginRates, commRates,
\* priceLimit and orderStatistics exactly when the trading day it reports
\* differs from the stored one, which it then replaces, and leaves the four
\* unchanged on the same day; the market's login does the same to its
\* last-tick cache; and a rate that is cached is answered within the
\* queryMarginRate / queryCommissionRate call, without a request.
C36_CachesLiveForTradingDay ==
    [][ /\ TraderLogsIn =>
              /\ tradingDay' = lastRsp'[1].day
              /\ IF tradingDay # lastRsp'[1].day
                 THEN /\ marginRates' = EmptyMap /\ commRates' = EmptyMap
                      /\ priceLimit' = EmptyMap /\ orderStatistics' = EmptyMap
                 ELSE UNCHANGED <<marginRates, commRates, priceLimit, orderStatistics>>
        /\ MarketLogsIn =>
              /\ marketTradingDay' = marketDay'[1]
              /\ lastTick' = IF marketTradingDay # marketDay'[1] THEN <<>> ELSE lastTick
        /\ \A kind \in RateKinds :
              (/\ Len(rateAsked'[kind]) > Len(rateAsked[kind])
               /\ MapHas(RatesOf(kind), "X")) =>
                 /\ Len(rateLog'[kind]) = Len(rateLog[kind]) + 1
                 /\ rateLog'[kind][Len(rateLog'[kind])].rate # <<>>
                 /\ rateSent' = rateSent ]_vars

\* C36 witness: the trader lost its connection with both rates, a price
\* limit and an order statistic cached, and has just logged in again on the
\* same trading day: all four are still there.
C36_Witness ==
    /\ reconnects = 1 /\ connected
    /\ lastRsp # <<>> /\ lastRsp[1].req = "UserLogin" /\ lastRsp[1].day = 1
    /\ inflight # <<>> /\ Head(inflight).req = "SettlementInfoConfirm"
    /\ tradingDay = 1
    /\ MapHas(marginRates, "X") /\ MapHas(commRates, "X")
    /\ MapHas(priceLimit, "X")
    /\ MapHas(orderStatistics, MkSymbol("X", "DCE"))

\* C37: every onTick call made for a tick goes to the receivers subscribed
\* when the tick arrived, in registration order and once each, with that
\* tick, with lastTicks already holding it, and with the tape computed
\* against the tick stored before; and when the delivery is over every one of
\* those receivers was called, also when a receiver subscribed or
\* unsubscribed inside onTick.
C37_EachReceiverGetsEachTickOnce ==
    /\ \A i \in 1..Len(tickLog) :
          /\ i <= Len(fanout.at)
          /\ tickLog[i].receiver = fanout.at[i]
          /\ tickLog[i].tick = fanout.tick
          /\ tickLog[i].held = fanout.tick
          /\ tickLog[i].tape = <<CalcTapeData(fanout.tick[1], fanout.pre)>>
    /\ (fanout.pc = "idle" /\ fanout.ticks > 0) => Len(tickLog) = Len(fanout.at)

\* The (symbol, receiver) pairs the unsubscribe call of this step names.
Unsubscribed == {pr \in DOMAIN balance : balance'[pr] < balance[pr]}

\* C38: the keys of symbols are the recorded instruments together with the
\* keys of subscribers, and no key of subscribers has an empty receiver list,
\* so a tick finds no symbol exactly when its instrument is neither recorded
\* nor subscribed; and an unsubscribe call that names only receivers not
\* registered for their symbols changes none of the maps and sends no request.
C38_SymbolsCoverWhatIsWatched ==
    /\ [](/\ DOMAIN symbols = recordings \cup DOMAIN subscribers
          /\ \A i \in DOMAIN subscribers : subscribers[i] # <<>>)
    /\ [][ (/\ Unsubscribed # {}
            /\ \A pr \in Unsubscribed :
                  ~(/\ MapHas(subscribers, parseSymbol(pr[1])[1])
                    /\ Includes(subscribers[parseSymbol(pr[1])[1]], pr[2])))
           => UNCHANGED <<subscribers, symbols, recordings, wire, wireSubs, wireUnsubs,
                          mdSleeping, mdFailed>> ]_vars

\* C38 witness: X is recorded and not subscribed, Y is subscribed and not
\* recorded, both have their symbol, and an unsubscribe for a pair that was
\* never subscribed has been called.
C38_Witness ==
    /\ recordings = {"X"}
    /\ DOMAIN subscribers = {"Y"}
    /\ DOMAIN symbols = {"X", "Y"}
    /\ ~ordered
    /\ \E pr \in DOMAIN balance : balance[pr] < 0

\* The onBar calls among the callbacks of this step.
NewOnBars ==
    SelectSeq(SubSeq(barLog', Len(barLog) + 1, Len(barLog')), LAMBDA c : c.fn = "onBar")

\* The tick of this step finds the current bar finished: in another minute
\* or on another date, or at the volume threshold.
FoundFinished ==
    /\ bar # <<>>
    /\ IF maxVolume > 0 THEN bar[1].volume >= maxVolume
       ELSE \/ bar[1].date # lastTick'[1].date
            \/ bar[1].time # (lastTick'[1].time \div 100) * 100

\* C39: a bar is passed to onBar by the tick that finds it finished and by
\* no other, once to each receiver in order and as the last tick before left
\* it, and is then discarded: the generator holds no bar or a new one begun by
\* this tick; a bar not found finished stays the current one; a bar of a
\* one-minute generator takes up only ticks of its date and minute; every bar
\* passed to onBar by a volume generator has volume >= maxVolume; and a tick
\* whose volumeDelta is 0 creates no bar and changes no field of one.
C39_BarsEmittedOnceWhenFinished ==
    /\ [](\A i \in 1..Len(barLog) :
             (barLog[i].fn = "onBar" /\ maxVolume > 0) => barLog[i].bar.volume >= maxVolume)
    /\ [][ (bar' # bar \/ barLog' # barLog) =>
             LET tick == lastTick'[1]
                 tp == tape'[1]
             IN /\ IF FoundFinished
                   THEN /\ Len(NewOnBars) = Len(barReceivers)
                        /\ \A i \in 1..Len(NewOnBars) :
                              /\ NewOnBars[i].to = barReceivers[i]
                              /\ NewOnBars[i].bar = bar[1]
                        /\ bar' # <<>> =>
                              /\ bar'[1].openPrice = tick.lastPrice
                              /\ bar'[1].volume = tp.volumeDelta
                   ELSE /\ NewOnBars = <<>>
                        /\ bar # <<>> =>
                              /\ bar' # <<>>
                              /\ bar'[1].date = bar[1].date
                              /\ bar'[1].time = bar[1].time
                              /\ bar'[1].openPrice = bar[1].openPrice
                              /\ bar'[1].volume = bar[1].volume + tp.volumeDelta
                /\ tp.volumeDelta = 0 => bar' = <<>>
                /\ (bar' # <<>> /\ maxVolume = 0) =>
                      /\ bar'[1].date = tick.date
                      /\ bar'[1].time = (tick.time \div 100) * 100 ]_vars

\* C39 witness: a one-minute generator passed the bar of 09:30 to a receiver
\* and holds the bar of 09:31.
C39_Witness ==
    /\ maxVolume = 0
    /\ \E i \in 1..Len(barLog) :
          /\ barLog[i].fn = "onBar"
          /\ barLog[i].bar.time = 93000
          /\ barLog[i].bar.volume > 0
    /\ bar # <<>>
    /\ bar[1].time = 93100

\* The prices a bar holds a volume at.
PricesOf(b) == DOMAIN b.buyVolumes \cup DOMAIN b.sellVolumes

\* poc is a price of maximal total volume of the bar.
PocMaximal(b) == \A price \in PricesOf(b) : GetBarVolume(b, price) <= GetBarVolume(b, b.poc)

\* C40: in the bar under construction and in every bar passed to onBar or
\* onUpdateBar, no price has a greater total volume buy + sell than poc; poc
\* of a new bar is the last price of the tick that began it, and poc of a bar
\* changes only to the last price of the current tick and only when that
\* price's total volume is then strictly greater than the total at the old poc.
C40_PocHasMaximalVolume ==
    /\ [](/\ bar # <<>> => PocMaximal(bar[1])
          /\ \A i \in 1..Len(barLog) : PocMaximal(barLog[i].bar))
    /\ [][ (bar' # bar /\ bar' # <<>>) =>
             IF bar = <<>> \/ FoundFinished
             THEN bar'[1].poc = lastTick'[1].lastPrice
             ELSE bar'[1].poc # bar[1].poc =>
                     /\ bar'[1].poc = lastTick'[1].lastPrice
                     /\ GetBarVolume(bar'[1], bar'[1].poc) >
                           GetBarVolume(bar'[1], bar[1].poc) ]_vars

\* C40 witness: the bar began at price 2, and price 4 holds more volume than
\* price 2 and is poc.
C40_Witness ==
    /\ bar # <<>>
    /\ bar[1].openPrice = 2
    /\ bar[1].poc = 4
    /\ GetBarVolume(bar[1], 4) > GetBarVolume(bar[1], 2)
====
